---------------------------- MODULE Spec2Model ----------------------------
(***************************************************************************)
(* A model of doc-mcp: the path/visibility string functions, the result    *)
(* merger and schema normalizer, the SSE session registry with the MCP     *)
(* JSON-RPC dispatcher, the endpoints handler of the router, and the docmcp *)
(* instance with reload().                                                 *)
(*                                                                         *)
(* Strings are sequences of one-character strings, so that the character   *)
(* level conversions of the code (toUpperCase, replace, startsWith, the    *)
(* glob-to-regex translation) are computed and not assumed.                *)
(*                                                                         *)
(* The module holds seventeen specifications over one set of variables:    *)
(*   SpecStr      normalizePath and isPathVisible on bounded strings       *)
(*   SpecNorm     parseAllDocumentation / mergeParseResults / normalizeSchema*)
(*   SpecParam    the parameters of an OpenAPI operation, normalized       *)
(*   SpecMeta     the metadata of the sources against the configuration    *)
(*   SpecMerge    the documentation resources of the sources, merged       *)
(*   SpecParse    parseAllDocumentation over files, URLs and glob patterns *)
(*   Spec         the SSE adapter: sessions, channels, keep-alive, close   *)
(*   SpecDispatch the SSE adapter: every kind of message body dispatched   *)
(*   SpecFlag     the SSE adapter: the initialized flag of the sessions    *)
(*   SpecSort     the endpoints of markdown sources, sorted                *)
(*   SpecMethod   the methods the parsers hand to the normalizer           *)
(*   SpecSource   determineSourceType over the source identifiers          *)
(*   SpecVisible  the paths of the schema against the visibility policy    *)
(*   SpecRegistry the SSE adapter: the registry of the sessions            *)
(*   SpecEndpoints the router: handleEndpoints and its filters             *)
(*   SpecReload   docmcp(): the instance, reload() and the mounted routes  *)
(*   SpecOverlap  docmcp(): calls of reload() that overlap                 *)
(* Each leaves the variables of the others at their initial value.         *)
(***************************************************************************)
EXTENDS Integers, Sequences, FiniteSets, TLC

VARIABLES
    \* --- SpecStr
    strPc,        \* "input" | "once" | "twice" | "visible"
    path,         \* the raw path string
    once,         \* normalizePath(path)
    twice,        \* normalizePath(normalizePath(path))
    visibility,   \* the VisibilityConfig handed to isPathVisible
    visible,      \* its answer
    \* --- SpecNorm
    normPc,       \* "parsing" | "done"
    results,      \* parseAllDocumentation: the ParseResult array built so far
    current,      \* the ParseResult the running extractor is building
    sources,      \* parseAllDocumentation: the sources it was called with
    logged,       \* the locators logger.error was called for
    docConfig,    \* the DocMcpConfig docmcp() was called with
    config,       \* the ResolvedConfig
    merged,       \* mergeParseResults(results)
    schema,       \* normalizeSchema(merged, config, ...)
    \* --- Spec (server/adapters/sse.ts)
    served,       \* the schema and config addMcpSseEndpoint was called with
    sessions,     \* the module-level Map sessionId -> McpSession
    nextId,       \* the session identifiers randomUUID() has handed out so far
    conn,         \* per connection: "none" | "open" | "broken" | "closed"
    heartbeat,    \* the connections whose setInterval timer is active
    failed,       \* the connections on which a keep-alive write threw
    channel,      \* per connection: the events written to reply.raw, in order
    posts,        \* the number of messages submitted so far
    lastPost,     \* what the last POST /message returned to its caller
    \* --- SpecReload (index.ts)
    source,         \* the content of the documentation file on disk
    resolvedConfig, \* docmcp: const resolvedConfig
    instance,       \* docmcp: the closure variables schema and handlers
    mounted,        \* the schema the handlers of the adapter's routes hold
    reloads,        \* per reload() call: its position and what its parse read
    resolved,       \* the reload() calls in the order their promises resolved
    clock,          \* the number of schemas built so far (stands for the time)
    edits,          \* the number of changes made to the file
    described,      \* what the last describe returned, and how it was asked
    \* --- SpecEndpoints (server/router.ts)
    routeSchema,    \* the schema createMcpHandlers was called with
    routeQuery,     \* the query of the last call of the endpoints handler
    routeResponse   \* what that call returned

strVars  == <<strPc, path, once, twice, visibility, visible>>
normVars == <<normPc, sources, logged, results, current, docConfig, config, merged, schema>>
sseVars  == <<served, sessions, nextId, conn, heartbeat, failed, channel, posts,
              lastPost>>
reloadVars == <<source, resolvedConfig, instance, mounted, reloads, resolved,
                clock, edits, described>>
routeVars == <<routeSchema, routeQuery, routeResponse>>
vars     == <<strVars, normVars, sseVars, reloadVars, routeVars>>

---------------------------------------------------------------------------
(* Bounds *)

MaxPathLen   == 3   \* characters of a path handed to normalizePath / isPathVisible
MaxPatLen    == 2   \* characters of a visibility pattern
MaxEndpoints == 3   \* candidate endpoints the extractors return in all
MaxSources   == 2   \* documentation sources parsed
MaxSessions  == 2   \* SSE connections opened
MaxPosts     == 2   \* messages submitted to POST /message
MaxClients   == 1   \* SSE connections opened while every kind of body is posted
MaxBeats     == 1   \* keep-alive events written in all
MaxReloads   == 2   \* reload() calls made on the instance
MaxEdits     == 2   \* changes made to the documentation file
MaxParams    == 2   \* parameter objects of an OpenAPI operation
MaxOperations == 1  \* operations of the OpenAPI document
MaxResources == 3   \* documentation sections in all the sources together
MaxFiles     == 2   \* files a glob pattern expands to

---------------------------------------------------------------------------
(* Strings *)

None == "undefined"

Str(S, n) == UNION { [1..k -> S] : k \in 0..n }

StartsWith(s, c) == Len(s) >= 1 /\ s[1] = c
EndsWith(s, c)   == Len(s) >= 1 /\ s[Len(s)] = c

RECURSIVE ReplaceAll(_, _, _)
\* String.prototype.replace(/c/g, r) for a one-character pattern c
ReplaceAll(s, c, r) ==
    IF s = <<>> THEN <<>>
    ELSE (IF Head(s) = c THEN r ELSE <<Head(s)>>) \o ReplaceAll(Tail(s), c, r)

LowerSeq == <<"a","b","c","d","e","f","g","h","i","j","k","l","m",
              "n","o","p","q","r","s","t","u","v","w","x","y","z">>
UpperSeq == <<"A","B","C","D","E","F","G","H","I","J","K","L","M",
              "N","O","P","Q","R","S","T","U","V","W","X","Y","Z">>
DigitSeq == <<"0","1","2","3","4","5","6","7","8","9">>
LowerLetters == { LowerSeq[k] : k \in 1..Len(LowerSeq) }
UpperLetters == { UpperSeq[k] : k \in 1..Len(UpperSeq) }
Digits       == { DigitSeq[k] : k \in 1..Len(DigitSeq) }
IndexIn(seq, c) == CHOOSE k \in 1..Len(seq) : seq[k] = c

\* \w of a JavaScript regular expression: [A-Za-z0-9_]
IsWordChar(c) == c \in LowerLetters \cup UpperLetters \cup Digits \cup {"_"}
\* [a-zA-Z0-9]
IsAlnum(c)    == c \in LowerLetters \cup UpperLetters \cup Digits

UpperChar(c) == IF c \in LowerLetters THEN UpperSeq[IndexIn(LowerSeq, c)] ELSE c
LowerChar(c) == IF c \in UpperLetters THEN LowerSeq[IndexIn(UpperSeq, c)] ELSE c

toUpperCase(s) == [k \in 1..Len(s) |-> UpperChar(s[k])]
toLowerCase(s) == [k \in 1..Len(s) |-> LowerChar(s[k])]

\* String.prototype.includes
includes(s, q) ==
    \E k \in 0..(Len(s) - Len(q)) : \A m \in 1..Len(q) : s[k + m] = q[m]

---------------------------------------------------------------------------
(* normalizers/index.ts: normalizePath *)

\* the end of the maximal run of \w characters of s that starts at i
RECURSIVE WordRunEnd(_, _)
WordRunEnd(s, i) ==
    IF i + 1 <= Len(s) /\ IsWordChar(s[i + 1]) THEN WordRunEnd(s, i + 1) ELSE i

RECURSIVE ReplaceColonParams(_, _)
\* s.replace(/:(\w+)/g, '{$1}') from position i on: leftmost match, greedy \w+
ReplaceColonParams(s, i) ==
    IF i > Len(s) THEN <<>>
    ELSE IF s[i] = ":" /\ i + 1 <= Len(s) /\ IsWordChar(s[i + 1])
         THEN LET j == WordRunEnd(s, i + 1)
              IN  <<"{">> \o SubSeq(s, i + 1, j) \o <<"}">> \o ReplaceColonParams(s, j + 1)
         ELSE <<s[i]>> \o ReplaceColonParams(s, i + 1)

normalizePath(p) ==
    LET lead  == IF StartsWith(p, "/") THEN p ELSE <<"/">> \o p
        strip == IF Len(lead) > 1 /\ EndsWith(lead, "/")
                 THEN SubSeq(lead, 1, Len(lead) - 1)
                 ELSE lead
    IN  ReplaceColonParams(strip, 1)

---------------------------------------------------------------------------
(* core/config.ts: matchesPattern, isPathVisible *)

\* the regular-expression source text built from a glob pattern
regexPattern(pattern) ==
    ReplaceAll(ReplaceAll(ReplaceAll(pattern, "*", <<".", "*">>),
                          "?", <<".">>),
               "/", <<"\\", "/">>)

RECURSIVE RegexMatchFrom(_, _, _, _)
\* new RegExp(`^${rx}$`).test(s), continued at rx[i..] and s[j..]: an atom
\* is an escaped character, '.', or a literal; '*' after an atom repeats it.
\* Whatever the pattern's author wrote is interpreted as regular-expression
\* syntax: nothing but '/' is escaped.
RegexMatchFrom(rx, i, s, j) ==
    IF i > Len(rx) THEN j > Len(s)
    ELSE LET esc  == rx[i] = "\\" /\ i < Len(rx)
             w    == IF esc THEN 2 ELSE 1
             lit  == IF esc THEN rx[i + 1] ELSE rx[i]
             any  == ~esc /\ rx[i] = "."
             star == i + w <= Len(rx) /\ rx[i + w] = "*"
             AtomOk(k) == k <= Len(s) /\ (any \/ s[k] = lit)
         IN  IF star
             THEN \/ RegexMatchFrom(rx, i + w + 1, s, j)
                  \/ (AtomOk(j) /\ RegexMatchFrom(rx, i, s, j + 1))
             ELSE AtomOk(j) /\ RegexMatchFrom(rx, i + w, s, j + 1)

matchesPattern(p, pattern) == RegexMatchFrom(regexPattern(pattern), 1, p, 1)

\* a VisibilityConfig; an undefined include / exclude is the empty sequence
\* (the code treats undefined and [] alike: no pattern to try)
isPathVisible(p, vis) ==
    IF \E k \in 1..Len(vis.exclude) : matchesPattern(p, vis.exclude[k])
    THEN FALSE
    ELSE IF Len(vis.include) > 0
         THEN \E k \in 1..Len(vis.include) : matchesPattern(p, vis.include[k])
         ELSE TRUE

DEFAULT_VISIBILITY == [include |-> <<>>, exclude |-> <<>>]

---------------------------------------------------------------------------
(* Records of the data model.  Free text that the code only copies or     *)
(* tests for emptiness (title, version, summary, description) is an opaque *)
(* string, None when undefined; method and path are character sequences,   *)
(* <<>> when missing or empty (both are falsy in the code).                *)

Truthy(x) == x # None /\ x # ""
\* JavaScript a || b on opaque strings
OrElse(a, b) == IF Truthy(a) THEN a ELSE b

EmptyParseResult ==
    [metadata |-> [title |-> None, description |-> None, version |-> None,
                   contact |-> None],
     endpoints |-> <<>>, resources |-> <<>>]

---------------------------------------------------------------------------
(* parsers/index.ts: mergeParseResults *)

RECURSIVE dedupResources(_, _)
\* merged.resources.filter(...) with the seenIds set: first occurrence wins
dedupResources(s, seenIds) ==
    IF s = <<>> THEN <<>>
    ELSE IF Head(s).id \in seenIds
         THEN dedupResources(Tail(s), seenIds)
         ELSE <<Head(s)>> \o dedupResources(Tail(s), seenIds \cup {Head(s).id})

RECURSIVE MergeLoop(_, _, _)
\* the for-loop of mergeParseResults over results[i..]
MergeLoop(rs, i, acc) ==
    IF i > Len(rs) THEN acc
    ELSE LET r == rs[i]
             m == [title   |-> OrElse(acc.metadata.title, r.metadata.title),
                   description |-> OrElse(acc.metadata.description,
                                          r.metadata.description),
                   version |-> OrElse(acc.metadata.version, r.metadata.version),
                   contact |-> OrElse(acc.metadata.contact, r.metadata.contact)]
         IN  MergeLoop(rs, i + 1,
                 [metadata  |-> m,
                  endpoints |-> acc.endpoints \o r.endpoints,
                  resources |-> acc.resources \o r.resources])

mergeParseResults(rs) ==
    IF Len(rs) = 0 THEN EmptyParseResult
    ELSE IF Len(rs) = 1 THEN rs[1]
    ELSE LET all == MergeLoop(rs, 1, EmptyParseResult)
         IN  [all EXCEPT !.resources = dedupResources(all.resources, {})]

---------------------------------------------------------------------------
(* normalizers/index.ts *)

Status(n) == <<"number", n>>

getDefaultResponseDescription(statusCode) ==
    IF statusCode[1] = "string"
    THEN (IF statusCode[2] = "default" THEN "Default response" ELSE "Response")
    ELSE CASE statusCode[2] = "200" -> "Successful response"
           [] statusCode[2] = "201" -> "Resource created"
           [] statusCode[2] = "204" -> "No content"
           [] statusCode[2] = "400" -> "Bad request"
           [] statusCode[2] = "401" -> "Unauthorized"
           [] statusCode[2] = "403" -> "Forbidden"
           [] statusCode[2] = "404" -> "Not found"
           [] statusCode[2] = "500" -> "Internal server error"
           [] OTHER -> "Response"

\* mutant of normalizeResponses: no response is synthesized
normalizeResponses_NoDefault(responses) ==
    [k \in 1..Len(responses) |->
        [statusCode  |-> responses[k].statusCode,
         description |-> OrElse(responses[k].description,
                                getDefaultResponseDescription(responses[k].statusCode))]]

normalizeResponses(responses) ==
    IF Len(responses) = 0
    THEN << [statusCode |-> Status("200"), description |-> "Successful response"] >>
    ELSE [k \in 1..Len(responses) |->
            [statusCode  |-> responses[k].statusCode,
             description |-> OrElse(responses[k].description,
                                    getDefaultResponseDescription(responses[k].statusCode))]]

methodOrder(method) ==
    CASE method = <<"G","E","T">>                 -> 0
      [] method = <<"P","O","S","T">>             -> 1
      [] method = <<"P","U","T">>                 -> 2
      [] method = <<"P","A","T","C","H">>         -> 3
      [] method = <<"D","E","L","E","T","E">>     -> 4
      [] method = <<"H","E","A","D">>             -> 5
      [] method = <<"O","P","T","I","O","N","S">> -> 6
      [] OTHER -> 99

\* The collation rank String.prototype.localeCompare gives the characters
\* of the model's alphabets (ICU root collation: punctuation and symbols
\* before digits before letters, a letter's case deciding last).
CharRank(c) ==
    CASE c = "_" -> 1 [] c = "-" -> 2 [] c = ":" -> 3 [] c = "?" -> 4
      [] c = "." -> 5 [] c = "{" -> 6 [] c = "}" -> 7 [] c = "*" -> 8
      [] c = "/" -> 9
      [] c \in Digits       -> 10 + IndexIn(DigitSeq, c)
      [] c \in LowerLetters -> 20 + IndexIn(LowerSeq, c)
      [] c \in UpperLetters -> 20 + IndexIn(UpperSeq, c)

RECURSIVE localeCompare(_, _)
\* a.localeCompare(b) as -1, 0, 1 (strings of one letter case)
localeCompare(a, b) ==
    IF a = <<>> /\ b = <<>> THEN 0
    ELSE IF a = <<>> THEN -1
    ELSE IF b = <<>> THEN 1
    ELSE IF CharRank(Head(a)) < CharRank(Head(b)) THEN -1
    ELSE IF CharRank(Head(a)) > CharRank(Head(b)) THEN 1
    ELSE localeCompare(Tail(a), Tail(b))

\* mutant of compareEndpoints: the method is not compared
compareEndpoints_PathOnly(a, b) == localeCompare(a.path, b.path)

\* the comparator handed to normalized.sort
compareEndpoints(a, b) ==
    LET pathCompare == localeCompare(a.path, b.path)
    IN  IF pathCompare # 0 THEN pathCompare
        ELSE methodOrder(a.method) - methodOrder(b.method)

RECURSIVE InsertSorted(_, _)
InsertSorted(s, e) ==
    IF s = <<>> THEN <<e>>
    ELSE IF compareEndpoints(e, Head(s)) < 0 THEN <<e>> \o s
    ELSE <<Head(s)>> \o InsertSorted(Tail(s), e)

RECURSIVE SortFrom(_, _, _)
SortFrom(s, i, acc) ==
    IF i > Len(s) THEN acc ELSE SortFrom(s, i + 1, InsertSorted(acc, s[i]))

\* Array.prototype.sort: stable (ES2019), so equal elements keep their order
sortEndpoints(s) == SortFrom(s, 1, <<>>)

\* mutant of endpointKey: the method is left out of the key
endpointKey_PathOnly(endpoint) == endpoint.path

endpointKey(endpoint) == endpoint.method \o <<":">> \o endpoint.path

\* param.required ?? (param.in === 'path'); the flag is "true", "false" or
\* None
requiredOrPath(param) ==
    IF param.required # None THEN param.required
    ELSE IF param.in = "path" THEN "true" ELSE "false"

\* normalizeParameters: params.map(...)
normalizeParameters(params) ==
    [k \in 1..Len(params) |->
        [name     |-> params[k].name,
         in       |-> params[k].in,
         required |-> requiredOrPath(params[k]),
         type     |-> OrElse(params[k].type, "string")]]

normalizeEndpoint(endpoint) ==
    [method     |-> toUpperCase(endpoint.method),
     path       |-> normalizePath(endpoint.path),
     summary    |-> endpoint.summary,
     parameters |-> normalizeParameters(endpoint.parameters),
     responses  |-> normalizeResponses(endpoint.responses)]

RECURSIVE NormalizeLoop(_, _, _, _, _)
\* the for-loop of normalizeEndpoints over parsed[i..]
NormalizeLoop(parsed, i, normalized, seen, cfg) ==
    IF i > Len(parsed) THEN normalized
    ELSE LET endpoint == parsed[i]
         IN  IF endpoint.method = <<>> \/ endpoint.path = <<>>
             THEN NormalizeLoop(parsed, i + 1, normalized, seen, cfg)
             ELSE IF ~isPathVisible(endpoint.path, cfg.visibility)
             THEN NormalizeLoop(parsed, i + 1, normalized, seen, cfg)
             ELSE IF endpointKey(endpoint) \in seen
             THEN NormalizeLoop(parsed, i + 1, normalized, seen, cfg)
             ELSE NormalizeLoop(parsed, i + 1,
                                Append(normalized, normalizeEndpoint(endpoint)),
                                seen \cup {endpointKey(endpoint)}, cfg)

normalizeEndpoints(parsed, cfg) ==
    sortEndpoints(NormalizeLoop(parsed, 1, <<>>, {}, cfg))

normalizeMetadata(parsed, cfg) ==
    [title   |-> OrElse(OrElse(cfg.metadata.title, parsed.title), "API Documentation"),
     description |-> OrElse(OrElse(cfg.metadata.description, parsed.description),
                            "API documentation served via doc-mcp"),
     version |-> OrElse(OrElse(cfg.metadata.version, parsed.version), "1.0.0"),
     contact |-> OrElse(cfg.metadata.contact, parsed.contact)]

normalizeSchema(parseResult, cfg) ==
    [metadata  |-> normalizeMetadata(parseResult.metadata, cfg),
     endpoints |-> normalizeEndpoints(parseResult.endpoints, cfg),
     resources |-> parseResult.resources]

---------------------------------------------------------------------------
(* core/config.ts: resolveConfig *)

DEFAULT_METADATA ==
    [title |-> "API Documentation",
     description |-> "API documentation served via doc-mcp",
     version |-> "1.0.0", contact |-> None]

\* { ...DEFAULT_METADATA, ...validated.metadata }: a key the user set wins.
\* A metadata object the user left out is the record of undefined fields.
spreadMetadata(defaults, given) ==
    [title   |-> IF given.title   # None THEN given.title   ELSE defaults.title,
     description |-> IF given.description # None THEN given.description
                     ELSE defaults.description,
     version |-> IF given.version # None THEN given.version ELSE defaults.version,
     contact |-> IF given.contact # None THEN given.contact ELSE defaults.contact]

resolveConfig(options) ==
    [visibility |-> [include |-> options.visibility.include,
                     exclude |-> options.visibility.exclude],
     metadata   |-> spreadMetadata(DEFAULT_METADATA, options.metadata)]

NoMetadata == [title |-> None, description |-> None, version |-> None, contact |-> None]

\* a DocMcpConfig without visibility and metadata
NoOptions == [visibility |-> DEFAULT_VISIBILITY, metadata |-> NoMetadata]

DefaultConfig ==
    resolveConfig([visibility |-> DEFAULT_VISIBILITY, metadata |-> NoMetadata])

EmptySchema == [metadata |-> DEFAULT_METADATA, endpoints |-> <<>>, resources |-> <<>>]

\* A source identifier is the sequence of the pieces it is written with;
\* no marker or extension occurs across two pieces or inside another one.
\* s.includes(marker)
includesPiece(s, marker) == \E k \in 1..Len(s) : s[k] = marker
\* s.endsWith(extension)
endsWithPiece(s, extension) == s # <<>> /\ s[Len(s)] = extension

\* determineSourceType(sources)
determineSourceType(srcs) ==
    LET hasOpenAPI ==
            \E k \in 1..Len(srcs) :
                \/ includesPiece(srcs[k], "openapi")
                \/ includesPiece(srcs[k], "swagger")
                \/ endsWithPiece(srcs[k], ".yaml")
                \/ endsWithPiece(srcs[k], ".yml")
                \/ endsWithPiece(srcs[k], ".json")
        hasMarkdown ==
            \E k \in 1..Len(srcs) :
                \/ endsWithPiece(srcs[k], ".md")
                \/ endsWithPiece(srcs[k], ".markdown")
    IN  IF hasOpenAPI /\ hasMarkdown THEN "mixed"
        ELSE IF hasMarkdown THEN "markdown"
        ELSE "openapi"

\* normalizeSchema with the source descriptor it builds from its third
\* argument: source: { type, files }
normalizeSchemaOf(parseResult, cfg, srcs) ==
    [metadata  |-> normalizeMetadata(parseResult.metadata, cfg),
     endpoints |-> normalizeEndpoints(parseResult.endpoints, cfg),
     resources |-> parseResult.resources,
     source    |-> [type |-> determineSourceType(srcs), files |-> srcs]]

---------------------------------------------------------------------------
(* server/adapters/sse.ts: the JSON-RPC dispatcher.                        *)
(* A text is the sequence of the pieces it is concatenated from: single    *)
(* characters for the strings the code inspects, whole literals otherwise. *)

\* mutant of Result: the response does not carry the request's id
Result_NoId(id, payload) ==
    [id |-> None, kind |-> "result", code |-> 0, message |-> <<>>, result |-> payload]

Result(id, payload) ==
    [id |-> id, kind |-> "result", code |-> 0, message |-> <<>>, result |-> payload]

Error(id, code, message) ==
    [id |-> id, kind |-> "error", code |-> code, message |-> message, result |-> <<>>]

SEARCH_DOCS == <<"s","e","a","r","c","h","_","d","o","c","s">>

\* endpoint.path.replace(/[^a-zA-Z0-9]/g, '_')
replaceNonAlnum(str) == [k \in 1..Len(str) |-> IF IsAlnum(str[k]) THEN str[k] ELSE "_"]

\* the tool name handleToolsList gives an endpoint
toolNameListed(endpoint) ==
    toLowerCase(endpoint.method) \o <<"_">> \o replaceNonAlnum(endpoint.path)

\* mutant of toolNameCalled: the method is not lower-cased
toolNameCalled_NoLower(e) == e.method \o <<"_">> \o replaceNonAlnum(e.path)

\* the tool name handleToolsCall compares the requested name with
toolNameCalled(e) ==
    toLowerCase(e.method) \o <<"_">> \o replaceNonAlnum(e.path)

handleInitialize(id, session) ==
    Result(id, [protocolVersion |-> "2024-11-05",
                serverInfo |-> [name    |-> OrElse(session.schema.metadata.title, "doc-mcp"),
                                version |-> OrElse(session.schema.metadata.version, "1.0.0")]])

handleToolsList(id, session) ==
    LET eps   == session.schema.endpoints
        tools == [k \in 1..Len(eps) |->
                    [name        |-> toolNameListed(eps[k]),
                     description |-> IF Truthy(eps[k].summary)
                                     THEN <<eps[k].summary>>
                                     ELSE eps[k].method \o <<" ">> \o eps[k].path]]
    IN  Result(id, [tools |-> Append(tools,
            [name |-> SEARCH_DOCS, description |-> <<"Search the API documentation">>])])

RECURSIVE Filter(_, _, _)
\* Array.prototype.filter by a set of accepted indices, order kept
Filter(seq, keep, i) ==
    IF i > Len(seq) THEN <<>>
    ELSE (IF i \in keep THEN <<seq[i]>> ELSE <<>>) \o Filter(seq, keep, i + 1)

\* mutant of searchHit: the content is not searched
searchHit_NoContent(r, query) ==
    \/ includes(toLowerCase(r.name), query)
    \/ includes(toLowerCase(r.summary), query)

\* the predicate of the search filter; an undefined summary or content is
\* the empty string (it only matters for the empty query, which the name
\* matches already)
searchHit(r, query) ==
    \/ includes(toLowerCase(r.name), query)
    \/ includes(toLowerCase(r.summary), query)
    \/ includes(toLowerCase(r.content), query)

\* `## ${r.name}\n${r.summary || ''}\n\n${r.content || ''}`
searchSection(r) ==
    <<"## ">> \o r.name \o <<"\n">> \o r.summary \o <<"\n\n">> \o r.content

RECURSIVE Join(_, _)
\* Array.prototype.join
Join(parts, sep) ==
    IF Len(parts) = 0 THEN <<>>
    ELSE IF Len(parts) = 1 THEN parts[1]
    ELSE parts[1] \o sep \o Join(Tail(parts), sep)

formatEndpointDocs(endpoint) ==
    LET head == <<"# ">> \o endpoint.method \o <<" ">> \o endpoint.path \o <<"\n\n">>
        summ == IF Truthy(endpoint.summary) THEN <<endpoint.summary, "\n\n">> ELSE <<>>
        resp == IF Len(endpoint.responses) > 0
                THEN <<"## Responses\n\n">> \o
                     Join([k \in 1..Len(endpoint.responses) |->
                             <<"### ", endpoint.responses[k].statusCode[2], "\n",
                               OrElse(endpoint.responses[k].description, ""), "\n\n">>],
                          <<>>)
                ELSE <<>>
    IN  head \o summ \o resp

\* a request's params: present or not, and the fields the handlers read
NoParams == [present |-> FALSE, name |-> <<>>, hasName |-> FALSE,
             query |-> <<>>, queryType |-> "undefined", uri |-> <<>>]

\* handleToolsCall; the destructuring of an undefined params throws
handleToolsCall(id, params, session) ==
    IF ~params.present THEN [threw |-> TRUE, response |-> Error(id, 0, <<>>)]
    ELSE IF params.hasName /\ params.name = SEARCH_DOCS
    THEN IF params.queryType = "number"
         THEN \* (5 || '').toLowerCase is not a function
              [threw |-> TRUE, response |-> Error(id, 0, <<>>)]
         ELSE LET query   == toLowerCase(params.query)
                  all     == session.schema.resources
                  found   == Filter(all, { k \in 1..Len(all) : searchHit(all[k], query) }, 1)
                  text    == IF Len(found) > 0
                             THEN Join([k \in 1..Len(found) |-> searchSection(found[k])],
                                       <<"\n\n---\n\n">>)
                             ELSE <<"No results found">>
              IN  [threw |-> FALSE,
                   response |-> Result(id, [content |-> << [type |-> "text", text |-> text] >>])]
    ELSE LET eps  == session.schema.endpoints
             hits == { k \in 1..Len(eps) : params.hasName /\ toolNameCalled(eps[k]) = params.name }
         IN  IF hits = {}
             THEN [threw |-> FALSE,
                   response |-> Error(id, -32602, <<"Unknown tool: ">> \o params.name)]
             ELSE LET first == CHOOSE k \in hits : \A l \in hits : k <= l
                  IN  [threw |-> FALSE,
                       response |-> Result(id, [content |->
                           << [type |-> "text", text |-> formatEndpointDocs(eps[first])] >>])]

DOC_SCHEME      == <<"d","o","c",":","/","/">>
ENDPOINT_SCHEME == <<"e","n","d","p","o","i","n","t",":","/","/">>

handleResourcesList(id, session) ==
    LET rs   == session.schema.resources
        eps  == session.schema.endpoints
        docs == [k \in 1..Len(rs) |-> [uri |-> DOC_SCHEME \o rs[k].id, name |-> rs[k].name]]
        ends == [k \in 1..Len(eps) |->
                    [uri  |-> ENDPOINT_SCHEME \o eps[k].method \o eps[k].path,
                     name |-> eps[k].method \o <<" ">> \o eps[k].path]]
    IN  Result(id, [resources |-> docs \o ends])

\* uri.startsWith(prefix)
startsWith(str, prefix) ==
    Len(str) >= Len(prefix) /\ SubSeq(str, 1, Len(prefix)) = prefix

\* uri.replace(prefix, '') for a uri that starts with prefix: the first
\* occurrence is the leading one
dropPrefix(str, prefix) == SubSeq(str, Len(prefix) + 1, Len(str))

handleResourcesRead(id, params, session) ==
    IF ~params.present THEN [threw |-> TRUE, response |-> Error(id, 0, <<>>)]
    ELSE LET uri == params.uri
             rs  == session.schema.resources
             eps == session.schema.endpoints
         IN  IF startsWith(uri, DOC_SCHEME)
             THEN LET hits == { k \in 1..Len(rs) : rs[k].id = dropPrefix(uri, DOC_SCHEME) }
                  IN  IF hits = {}
                      THEN [threw |-> FALSE,
                            response |-> Error(id, -32602, <<"Resource not found: ">> \o uri)]
                      ELSE LET r == rs[CHOOSE k \in hits : \A l \in hits : k <= l]
                           IN  [threw |-> FALSE,
                                response |-> Result(id, [contents |-> << [uri |-> uri,
                                    text |-> IF r.content # <<>> THEN r.content
                                             ELSE <<"# ">> \o r.name \o <<"\n\n">> \o r.summary] >>])]
             ELSE IF startsWith(uri, ENDPOINT_SCHEME)
             THEN LET hits == { k \in 1..Len(eps) :
                                  eps[k].method \o eps[k].path = dropPrefix(uri, ENDPOINT_SCHEME) }
                  IN  IF hits = {}
                      THEN [threw |-> FALSE,
                            response |-> Error(id, -32602, <<"Endpoint not found: ">> \o uri)]
                      ELSE LET e == eps[CHOOSE k \in hits : \A l \in hits : k <= l]
                           IN  [threw |-> FALSE,
                                response |-> Result(id, [contents |-> << [uri |-> uri,
                                    text |-> formatEndpointDocs(e)] >>])]
             ELSE [threw |-> FALSE,
                   response |-> Error(id, -32602, <<"Unknown URI scheme: ">> \o uri)]

\* the switch of handleMcpRequest, inside its try block; `threw` says that
\* a handler threw, which the catch turns into the -32603 response
dispatch(request, session) ==
    LET id == request.id
        ok(response) == [threw |-> FALSE, response |-> response]
    IN  CASE request.method = "initialize"     -> ok(handleInitialize(id, session))
          [] request.method = "initialized"    -> ok(Result(id, [empty |-> TRUE]))
          [] request.method = "tools/list"     -> ok(handleToolsList(id, session))
          [] request.method = "tools/call"     -> handleToolsCall(id, request.params, session)
          [] request.method = "resources/list" -> ok(handleResourcesList(id, session))
          [] request.method = "resources/read" -> handleResourcesRead(id, request.params, session)
          [] request.method = "prompts/list"   -> ok(Result(id, [prompts |-> <<>>]))
          [] request.method = "ping"           -> ok(Result(id, [empty |-> TRUE]))
          [] OTHER -> ok(Error(id, -32601, <<"Method not found: ", request.method>>))

\* `const { method, id, params } = request`, ahead of the try block: it
\* throws a TypeError for null and undefined, and reads undefined fields
\* off any other value
destructureRequest(body) == body.type \notin {"undefined", "null"}

\* mutant of setInitialized: every dispatched call sets the flag
setInitialized_Always(body, session) == TRUE

\* case 'initialized': session.initialized = true; every other case of the
\* switch leaves the flag as it is
setInitialized(body, session) ==
    session.initialized \/ body.method = "initialized"

\* handleMcpRequest(request, session): `escaped` when the call throws (its
\* promise rejects), else the response and the session's initialized flag
handleMcpRequest(body, session) ==
    IF ~destructureRequest(body)
    THEN [escaped |-> TRUE, response |-> Error(None, 0, <<>>),
          initialized |-> session.initialized]
    ELSE LET out == dispatch(body, session)
         IN  [escaped  |-> FALSE,
              response |-> IF out.threw
                           THEN Error(body.id, -32603, <<"TypeError">>)
                           ELSE out.response,
              initialized |-> setInitialized(body, session)]

---------------------------------------------------------------------------
(* Inputs *)

PathAlphabet    == {"/", "a", ":", "."}
PatternAlphabet == {"/", "a", ".", "*", "?"}

Patterns == Str(PatternAlphabet, MaxPatLen)
\* include / exclude lists of at most one pattern
PatternLists == {<<>>} \cup { <<pat>> : pat \in Patterns }

GET == <<"G","E","T">>
POST == <<"P","O","S","T">>

\* what an extractor may return for a candidate: a method as written in the
\* source (a custom parser need not upper-case it) or none, a path with or
\* without a trailing slash, declared responses or none
CandidateMethods   == { GET, <<"g","e","t">>, <<>> }
CandidatePaths     == { <<"/","u">>, <<"/","u","/">> }
CandidateResponses == { <<>>, << [statusCode |-> Status("404"), description |-> None] >> }
\* every method on every path without declared responses, and one candidate
\* that declares a response
CandidateEndpoints ==
    { [method |-> m, path |-> p, parameters |-> <<>>, responses |-> <<>>] :
        m \in CandidateMethods, p \in CandidatePaths }
    \cup { [method |-> GET, path |-> <<"/","u">>, parameters |-> <<>>, responses |-> r] :
              r \in CandidateResponses }

\* parsers/openapi.ts: getSchemaType of a parameter's schema; the schema's
\* type is None (no schema, or a schema without type), "[]" (an empty array
\* of types) or a type name
getSchemaType(schemaType) ==
    IF schemaType = None THEN "unknown"
    ELSE IF schemaType = "[]" THEN ""
    ELSE schemaType

\* parsers/openapi.ts: extractParametersV3; required: param.required || false
extractParametersV3(params) ==
    [k \in 1..Len(params) |->
        [name     |-> params[k].name,
         in       |-> params[k].in,
         required |-> IF params[k].required = "true" THEN "true" ELSE "false",
         type     |-> getSchemaType(params[k].schemaType)]]

\* the parameter objects of an OpenAPI operation: each location with each
\* declaration of required, and two parameters without a usable schema type
OpenApiParameters ==
    { [name |-> "id", in |-> i, required |-> r, schemaType |-> "integer"] :
        i \in {"path", "query"}, r \in {"true", "false", None} }
    \cup { [name |-> "q", in |-> "query", required |-> None, schemaType |-> t] :
              t \in {None, "[]"} }

OpenApiParameterLists == Str(OpenApiParameters, MaxParams)

NormOptions ==
    { [visibility |-> v, metadata |-> NoMetadata] :
        v \in { DEFAULT_VISIBILITY,
                [include |-> <<>>, exclude |-> << <<"/","u","/">> >>],
                [include |-> << <<"/","u","*">> >>, exclude |-> <<>>] } }

---------------------------------------------------------------------------
(* index.ts, server/router.ts: what docmcp() and reload() compute *)

\* the UTF-16 code unit of the characters a path is made of
CodeUnit(c) ==
    CASE c = "-" -> 45 [] c = "." -> 46 [] c = "/" -> 47
      [] c \in Digits       -> 47 + IndexIn(DigitSeq, c)
      [] c = ":" -> 58
      [] c \in UpperLetters -> 64 + IndexIn(UpperSeq, c)
      [] c = "_" -> 95
      [] c \in LowerLetters -> 96 + IndexIn(LowerSeq, c)
      [] c = "{" -> 123 [] c = "}" -> 125

RECURSIVE LexLess(_, _)
\* a < b on strings: the lexicographic order of their code units
LexLess(a, b) ==
    IF b = <<>> THEN FALSE
    ELSE IF a = <<>> THEN TRUE
    ELSE IF CodeUnit(Head(a)) # CodeUnit(Head(b))
         THEN CodeUnit(Head(a)) < CodeUnit(Head(b))
    ELSE LexLess(Tail(a), Tail(b))

\* Array.prototype.sort() without a comparator, on a set of distinct strings
RECURSIVE sortStrings(_)
sortStrings(S) ==
    IF S = {} THEN <<>>
    ELSE LET least == CHOOSE x \in S : \A y \in S \ {x} : LexLess(x, y)
         IN  <<least>> \o sortStrings(S \ {least})

\* a query parameter of GET <basePath>/endpoints: undefined or a string
Undefined == [defined |-> FALSE, value |-> <<>>]
QueryString(value) == [defined |-> TRUE, value |-> value]
\* if (query.tag), if (query.method), if (query.path): a non-empty string
TruthyString(q) == q.defined /\ q.value # <<>>

\* endpoint.tags.includes(query.tag): Array.prototype.includes
tagsInclude(tags, tag) == \E k \in 1..Len(tags) : tags[k] = tag

\* filterEndpoints: the predicate handed to endpoints.filter
passesFilters(endpoint, query) ==
    /\ TruthyString(query.tag) => tagsInclude(endpoint.tags, query.tag.value)
    /\ TruthyString(query.method)
          => toUpperCase(endpoint.method) = toUpperCase(query.method.value)
    /\ TruthyString(query.path) => includes(endpoint.path, query.path.value)
    /\ query.deprecated # None => endpoint.deprecated = query.deprecated

filterEndpoints(endpoints, query) ==
    SelectSeq(endpoints, LAMBDA endpoint : passesFilters(endpoint, query))

\* handleEndpoints(schema, query)
handleEndpoints(sch, query) ==
    LET endpoints == IF query.present THEN filterEndpoints(sch.endpoints, query)
                     ELSE sch.endpoints
        tags == UNION { { sch.endpoints[k].tags[t] : t \in 1..Len(sch.endpoints[k].tags) } :
                          k \in 1..Len(sch.endpoints) }
    IN  [endpoints |-> endpoints,
         count     |-> Len(endpoints),
         tags      |-> sortStrings(tags)]

NoQuery ==
    [present |-> FALSE, tag |-> Undefined, method |-> Undefined, path |-> Undefined,
     deprecated |-> None]
NoResponse == [endpoints |-> <<>>, count |-> 0, tags |-> <<>>]

\* what the documentation file can hold: the metadata it declares, and
\* whether it can be found and parsed at all
Contents ==
    [title : {"Shop API"}, version : {"1.0.0", "2.0.0"},
     contact : {"alice", "bob"}, ok : BOOLEAN]

\* the metadata the user can hand to docmcp()
OptionsMetadata ==
    { NoMetadata, [NoMetadata EXCEPT !.version = "9.9.9"] }

\* parseDocumentation on a single explicitly named source
parseDocumentation(content) ==
    [metadata  |-> [title   |-> content.title,
                    description |-> None,
                    version |-> content.version,
                    contact |-> content.contact],
     endpoints |-> <<>>, resources |-> <<>>]

\* parseAllDocumentation(resolvedConfig.docs, ...) for the one source
parseAllDocumentation(content) ==
    mergeParseResults(<<parseDocumentation(content)>>)

\* the NormalizedSchema with its provenance; parsedAt is the time of the
\* normalization
buildSchema(parseResult, cfg, now) ==
    [normalized |-> normalizeSchema(parseResult, cfg), parsedAt |-> now]

\* router.ts handleDescribe
handleDescribe(sch) ==
    [name        |-> OrElse(sch.normalized.metadata.title, "API"),
     version     |-> OrElse(sch.normalized.metadata.version, "1.0.0"),
     contact     |-> sch.normalized.metadata.contact,
     generatedAt |-> sch.parsedAt]

\* router.ts createMcpHandlers: the handlers close over the schema given
createMcpHandlers(sch) == [schema |-> sch]

IdleReload == [pc |-> "idle", read |-> parseAllDocumentation(CHOOSE c \in Contents : TRUE)]

NoDescribe ==
    [via |-> "none", settled |-> FALSE,
     at |-> CHOOSE c \in Contents : TRUE,
     response |-> [name |-> "", version |-> "", contact |-> "", generatedAt |-> 0]]

---------------------------------------------------------------------------
(* SpecStr: normalizePath and isPathVisible applied to bounded strings *)

StrIdle ==
    /\ strPc = "idle" /\ path = <<>> /\ once = <<>> /\ twice = <<>>
    /\ visibility = DEFAULT_VISIBILITY /\ visible = TRUE

NormIdle ==
    /\ normPc = "idle" /\ results = <<>> /\ current = EmptyParseResult
    /\ sources = <<>> /\ logged = {}
    /\ docConfig = NoOptions /\ config = DefaultConfig
    /\ merged = EmptyParseResult /\ schema = EmptySchema

NoPost == [sid |-> 0, status |-> 0, request |-> [type |-> "none"], body |-> <<>>]

SseIdle ==
    /\ served = [schema |-> EmptySchema, config |-> DefaultConfig]
    /\ sessions = <<>> /\ nextId = 1
    /\ conn = [c \in 1..MaxSessions |-> "none"]
    /\ heartbeat = {} /\ failed = {}
    /\ channel = [c \in 1..MaxSessions |-> <<>>]
    /\ posts = 0 /\ lastPost = NoPost

RouteIdle ==
    /\ routeSchema = EmptySchema
    /\ routeQuery = NoQuery
    /\ routeResponse = NoResponse

ReloadIdle ==
    /\ source = CHOOSE c \in Contents : TRUE
    /\ resolvedConfig = DefaultConfig
    /\ instance = [schema |-> [normalized |-> EmptySchema, parsedAt |-> 0],
                   handlers |-> createMcpHandlers([normalized |-> EmptySchema, parsedAt |-> 0])]
    /\ mounted = createMcpHandlers([normalized |-> EmptySchema, parsedAt |-> 0])
    /\ reloads = [r \in 1..MaxReloads |-> IdleReload]
    /\ resolved = <<>> /\ clock = 0 /\ edits = 0
    /\ described = NoDescribe

InitStr ==
    /\ strPc = "input"
    /\ path \in Str(PathAlphabet, MaxPathLen)
    /\ once = <<>> /\ twice = <<>>
    /\ visibility = DEFAULT_VISIBILITY /\ visible = TRUE
    /\ NormIdle /\ SseIdle /\ ReloadIdle /\ RouteIdle

NormalizeOnce ==
    /\ strPc = "input"
    /\ once' = normalizePath(path)
    /\ strPc' = "once"
    /\ UNCHANGED <<path, twice, visibility, visible, normVars, sseVars, reloadVars, routeVars>>

NormalizeTwice ==
    /\ strPc = "once"
    /\ twice' = normalizePath(once)
    /\ strPc' = "twice"
    /\ UNCHANGED <<path, once, visibility, visible, normVars, sseVars, reloadVars, routeVars>>

CheckVisible ==
    /\ strPc = "input"
    /\ \E inc \in PatternLists, exc \in PatternLists :
          /\ visibility' = [include |-> inc, exclude |-> exc]
          /\ visible' = isPathVisible(path, visibility')
    /\ strPc' = "visible"
    /\ UNCHANGED <<path, once, twice, normVars, sseVars, reloadVars, routeVars>>

NextStr == NormalizeOnce \/ NormalizeTwice \/ CheckVisible

SpecStr == InitStr /\ [][NextStr]_vars

---------------------------------------------------------------------------
(* SpecNorm: the extractors fill ParseResults, parseAllDocumentation       *)
(* collects and merges them, normalizeSchema builds the schema             *)

CountEndpoints(rs) ==
    LET RECURSIVE Sum(_)
        Sum(i) == IF i > Len(rs) THEN 0 ELSE Len(rs[i].endpoints) + Sum(i + 1)
    IN  Sum(1)

InitNorm ==
    /\ normPc = "parsing"
    /\ sources = <<>> /\ logged = {}
    /\ results = <<>>
    /\ current = EmptyParseResult
    /\ docConfig \in NormOptions
    /\ config = resolveConfig(docConfig)
    /\ merged = EmptyParseResult
    /\ schema = EmptySchema
    /\ StrIdle /\ SseIdle /\ ReloadIdle /\ RouteIdle

\* an extractor adds a candidate endpoint to the result it is building;
\* the summary text is distinct per candidate, so that the origin of a
\* normalized endpoint can be read off the schema
ExtractEndpoint ==
    /\ normPc = "parsing"
    /\ Len(results) < MaxSources
    /\ CountEndpoints(results) + Len(current.endpoints) < MaxEndpoints
    /\ \E e \in CandidateEndpoints :
          current' = [current EXCEPT !.endpoints = Append(@,
              [method |-> e.method, path |-> e.path,
               summary |-> ToString(CountEndpoints(results) + Len(current.endpoints) + 1),
               parameters |-> e.parameters,
               responses |-> e.responses])]
    /\ UNCHANGED <<normPc, results, sources, logged, docConfig, config,
                   merged, schema, strVars, sseVars, reloadVars, routeVars>>

\* parseAllDocumentation: results.push(result)
FinishSource ==
    /\ normPc = "parsing"
    /\ Len(results) < MaxSources
    /\ results' = Append(results, current)
    /\ current' = EmptyParseResult
    /\ UNCHANGED <<normPc, sources, logged, docConfig, config, merged, schema,
                   strVars, sseVars, reloadVars, routeVars>>

\* parseAllDocumentation returns mergeParseResults(results); docmcp hands
\* it to normalizeSchema
Normalize ==
    /\ normPc = "parsing"
    /\ current = EmptyParseResult
    /\ merged' = mergeParseResults(results)
    /\ schema' = normalizeSchema(merged', config)
    /\ normPc' = "done"
    /\ UNCHANGED <<results, current, sources, logged, docConfig, config,
                   strVars, sseVars, reloadVars, routeVars>>

NextNorm == ExtractEndpoint \/ FinishSource \/ Normalize

SpecNorm == InitNorm /\ [][NextNorm]_vars

\* SpecParam: the same pipeline fed by the OpenAPI extractor, which builds
\* one endpoint per operation with the operation's parameters
\* parsers/openapi.ts: endpoints.push(endpoint)
ExtractOperation ==
    /\ normPc = "parsing"
    /\ results = <<>>
    /\ Len(current.endpoints) < MaxOperations
    /\ \E params \in OpenApiParameterLists :
          current' = [current EXCEPT !.endpoints = Append(@,
              [method |-> GET, path |-> <<"/","u">>,
               summary |-> ToString(Len(current.endpoints) + 1),
               parameters |-> extractParametersV3(params),
               responses |-> <<>>])]
    /\ UNCHANGED <<normPc, results, sources, logged, docConfig, config,
                   merged, schema, strVars, sseVars, reloadVars, routeVars>>

\* SpecSort: the endpoints the markdown extractor finds, on paths that the
\* orders on strings rank differently; HTTP_METHOD_PATTERN admits letters,
\* digits and / _ { } - . : in a path
SortMethods == { GET, POST, <<"D","E","L","E","T","E">> }
SortPaths   == { <<"/","m">>, <<"/","{","i","}">> }

\* extractEndpointsFromMarkdown: endpoints.push(...) for a matching title or line
ExtractMarkdownEndpoint ==
    /\ normPc = "parsing"
    /\ Len(results) < MaxSources
    /\ CountEndpoints(results) + Len(current.endpoints) < MaxEndpoints
    /\ \E m \in SortMethods, p \in SortPaths :
          current' = [current EXCEPT !.endpoints = Append(@,
              [method |-> m, path |-> p,
               summary |-> ToString(CountEndpoints(results) + Len(current.endpoints) + 1),
               parameters |-> <<>>,
               responses |-> <<>>])]
    /\ UNCHANGED <<normPc, results, sources, logged, docConfig, config,
                   merged, schema, strVars, sseVars, reloadVars, routeVars>>

NextSort == ExtractMarkdownEndpoint \/ FinishSource \/ Normalize

SpecSort == InitNorm /\ [][NextSort]_vars

\* SpecMethod: the method strings of the three kinds of source. The summary
\* of a candidate records the kind of parser that returned it.
HTTP_METHODS ==
    { <<"g","e","t">>, <<"p","o","s","t">>, <<"p","u","t">>, <<"p","a","t","c","h">>,
      <<"d","e","l","e","t","e">>, <<"h","e","a","d">>,
      <<"o","p","t","i","o","n","s">> }

\* HTTP_METHOD_PATTERN, /^(GET|POST|PUT|PATCH|DELETE|HEAD|OPTIONS)\s+.../i: the
\* first word of a line matches when it is one of the methods in any case
matchesMethodPattern(word) == toLowerCase(word) \in HTTP_METHODS

\* first words of the lines of a markdown file
MethodWords == { <<"g","e","t">>, <<"G","e","t">>, <<"P","U","T">>, <<"t","r","a","c","e">> }

\* keys of a path item of an OpenAPI document
PathItemKeys == { <<"g","e","t">>, <<"d","e","l","e","t","e">>, <<"t","r","a","c","e">> }

\* methods of the endpoints a custom parser returns
CustomMethods == { GET, <<"g","e","t">>, <<"t","r","a","c","e">>, <<"L","I","N","K">> }

ExtractFrom(kind, method) ==
    /\ normPc = "parsing"
    /\ Len(results) < MaxSources
    /\ CountEndpoints(results) + Len(current.endpoints) < MaxEndpoints
    /\ current' = [current EXCEPT !.endpoints = Append(@,
           [method |-> method, path |-> <<"/","u">>, summary |-> kind,
            parameters |-> <<>>, responses |-> <<>>])]
    /\ UNCHANGED <<normPc, results, sources, logged, docConfig, config,
                   merged, schema, strVars, sseVars, reloadVars, routeVars>>

\* extractEndpointsFromMarkdown: method: match[1].toUpperCase()
ExtractMarkdownLine ==
    \E word \in MethodWords :
        /\ matchesMethodPattern(word)
        /\ ExtractFrom("markdown", toUpperCase(word))

\* extractEndpointsV3: for (const method of HTTP_METHODS) with an operation
\* under that key; method: method.toUpperCase()
ExtractPathItem ==
    \E key \in PathItemKeys :
        /\ key \in HTTP_METHODS
        /\ ExtractFrom("openapi", toUpperCase(key))

\* parseDocumentation: return parser.parse(content, source); the endpoints
\* are taken as the custom parser returns them
ExtractCustom ==
    \E method \in CustomMethods : ExtractFrom("custom", method)

NextMethod ==
    \/ ExtractMarkdownLine
    \/ ExtractPathItem
    \/ ExtractCustom
    \/ FinishSource
    \/ Normalize

SpecMethod == InitNorm /\ [][NextMethod]_vars

\* SpecSource: docmcp() on every list of source identifiers
SourceNames ==
    { <<"api", ".md">>, <<"README", ".markdown">>, <<"openapi", ".md">>,
      <<"api", ".yaml">>, <<"api", ".json">>, <<"docs/", "swagger">>,
      <<"client", ".ts">>, <<"notes", ".txt">> }

SourceNameLists == Str(SourceNames, MaxSources) \ {<<>>}

InitSource ==
    /\ normPc = "parsing"
    /\ sources \in SourceNameLists
    /\ logged = {} /\ results = <<>>
    /\ current = EmptyParseResult
    /\ docConfig = NoOptions /\ config = DefaultConfig
    /\ merged = EmptyParseResult
    /\ schema = EmptySchema
    /\ StrIdle /\ SseIdle /\ ReloadIdle /\ RouteIdle

\* docmcp: normalizeSchema(parseResult, resolvedConfig, resolvedConfig.docs, logger)
NormalizeSources ==
    /\ normPc = "parsing"
    /\ merged' = mergeParseResults(results)
    /\ schema' = normalizeSchemaOf(merged', config, sources)
    /\ normPc' = "done"
    /\ UNCHANGED <<results, current, sources, logged, docConfig, config,
                   strVars, sseVars, reloadVars, routeVars>>

NextSource == NormalizeSources

SpecSource == InitSource /\ [][NextSource]_vars

\* SpecVisible: the candidates of SpecNorm under visibility policies whose
\* patterns are written with and without the trailing slash
VisibleOptions ==
    { [visibility |-> v, metadata |-> NoMetadata] :
        v \in { [include |-> <<>>, exclude |-> << <<"/","u">> >>],
                [include |-> <<>>, exclude |-> << <<"/","u","/">> >>],
                [include |-> << <<"/","u">> >>, exclude |-> <<>>],
                [include |-> << <<"/","u","/">> >>, exclude |-> <<>>] } }

InitVisible ==
    /\ normPc = "parsing"
    /\ sources = <<>> /\ logged = {}
    /\ results = <<>>
    /\ current = EmptyParseResult
    /\ docConfig \in VisibleOptions
    /\ config = resolveConfig(docConfig)
    /\ merged = EmptyParseResult
    /\ schema = EmptySchema
    /\ StrIdle /\ SseIdle /\ ReloadIdle /\ RouteIdle

NextVisible == ExtractEndpoint \/ FinishSource \/ Normalize

SpecVisible == InitVisible /\ [][NextVisible]_vars

NextParam == ExtractOperation \/ FinishSource \/ Normalize

SpecParam == InitNorm /\ [][NextParam]_vars

\* SpecMeta: docmcp() called with metadata in its configuration, on sources
\* that declare metadata of their own
\* the metadata the user can set in the configuration
MetaOptions ==
    { [visibility |-> DEFAULT_VISIBILITY,
       metadata |-> [NoMetadata EXCEPT !.title = t, !.description = d, !.version = v]] :
        t \in {None, "My API"}, d \in {None, "Mine"}, v \in {None, "9.9.9"} }

\* the metadata an extractor can find in a source
SourceMetadata ==
    { [NoMetadata EXCEPT !.title = t, !.description = d, !.version = v] :
        t \in {None, "Shop API"}, d \in {None, "The shop"}, v \in {None, "2.0.0"} }

InitMeta ==
    /\ normPc = "parsing"
    /\ sources = <<>> /\ logged = {}
    /\ results = <<>>
    /\ current = EmptyParseResult
    /\ docConfig \in MetaOptions
    /\ config = resolveConfig(docConfig)
    /\ merged = EmptyParseResult
    /\ schema = EmptySchema
    /\ StrIdle /\ SseIdle /\ ReloadIdle /\ RouteIdle

\* an extractor records the metadata its source declares
ExtractMetadata ==
    /\ normPc = "parsing"
    /\ Len(results) < MaxSources
    /\ current = EmptyParseResult
    /\ \E m \in SourceMetadata \ {NoMetadata} :
          current' = [current EXCEPT !.metadata = m]
    /\ UNCHANGED <<normPc, results, sources, logged, docConfig, config,
                   merged, schema, strVars, sseVars, reloadVars, routeVars>>

NextMeta == ExtractMetadata \/ FinishSource \/ Normalize

SpecMeta == InitMeta /\ [][NextMeta]_vars

\* SpecMerge: the sources hold documentation sections, which the markdown
\* extractor turns into resources
\* `${fileName}-${section.title...}`: the identifiers two sections can get
ResourceIds == { <<"g","-","u","s","e">>, <<"g","-","f","a","q">> }

CountResources(rs) ==
    LET RECURSIVE Sum(_)
        Sum(i) == IF i > Len(rs) THEN 0 ELSE Len(rs[i].resources) + Sum(i + 1)
    IN  Sum(1)

InitMerge ==
    /\ normPc = "parsing"
    /\ sources = <<>> /\ logged = {}
    /\ results = <<>>
    /\ current = EmptyParseResult
    /\ docConfig = NoOptions
    /\ config = resolveConfig(docConfig)
    /\ merged = EmptyParseResult
    /\ schema = EmptySchema
    /\ StrIdle /\ SseIdle /\ ReloadIdle /\ RouteIdle

\* extractResourcesFromMarkdown: resources.push(resource); the content is
\* distinct per section, so that the origin of a surviving resource can be
\* read off the merged result
ExtractResource ==
    /\ normPc = "parsing"
    /\ Len(results) < MaxSources
    /\ CountResources(results) + Len(current.resources) < MaxResources
    /\ \E id \in ResourceIds :
          current' = [current EXCEPT !.resources = Append(@,
              [id |-> id, name |-> id, summary |-> <<>>,
               content |-> <<ToString(CountResources(results)
                                      + Len(current.resources) + 1)>>])]
    /\ UNCHANGED <<normPc, results, sources, logged, docConfig, config,
                   merged, schema, strVars, sseVars, reloadVars, routeVars>>

NextMerge == ExtractResource \/ FinishSource \/ Normalize

SpecMerge == InitMerge /\ [][NextMerge]_vars

\* SpecParse: parseAllDocumentation over named files, remote locators and
\* glob patterns, some of which cannot be read or parsed
\* isGlobPattern: source.includes('*') || source.includes('?') || source.includes('{')
isGlobPattern(text) == \E k \in 1..Len(text) : text[k] \in {"*", "?", "{"}

\* what parsing a file or fetching a locator gives: a result holding one
\* resource named after it, or a thrown error
parseFromFile(file) ==
    IF file.ok
    THEN [threw |-> FALSE,
          result |-> [EmptyParseResult EXCEPT !.resources =
                         << [id |-> file.text, name |-> file.text, summary |-> <<>>,
                             content |-> <<>>] >>]]
    ELSE [threw |-> TRUE, result |-> EmptyParseResult]

RECURSIVE GlobLoop(_, _, _, _)
\* parseGlobPattern: the for-loop over the files glob() found; a failure is
\* logged and the loop goes on
GlobLoop(files, i, parsed, errors) ==
    IF i > Len(files) THEN [results |-> parsed, logged |-> errors]
    ELSE LET out == parseFromFile(files[i])
         IN  IF out.threw
             THEN GlobLoop(files, i + 1, parsed, errors \cup {files[i].text})
             ELSE GlobLoop(files, i + 1, Append(parsed, out.result), errors)

\* parseGlobPattern(pattern, config, logger); src.files is what glob()
\* finds for the text
parseGlobPattern(src) ==
    IF Len(src.files) = 0
    THEN [threw |-> FALSE, result |-> EmptyParseResult, logged |-> {}]
    ELSE LET loop == GlobLoop(src.files, 1, <<>>, {})
         IN  [threw |-> FALSE, result |-> mergeParseResults(loop.results),
              logged |-> loop.logged]

\* parseDocumentation(source, config, logger) without custom parsers: the
\* glob test comes first, then isURL ? parseFromURL : parseFromFile
parseSource(src) ==
    IF isGlobPattern(src.text) THEN parseGlobPattern(src)
    ELSE LET out == parseFromFile(src)
         IN  [threw |-> out.threw, result |-> out.result, logged |-> {}]

\* the files a pattern can expand to
GlobFiles ==
    { [text |-> <<"docs/", n, ".md">>, ok |-> ok] : n \in {"a", "b"}, ok \in BOOLEAN }

GlobFileLists ==
    { fs \in Str(GlobFiles, MaxFiles) :
        \A i, j \in 1..Len(fs) : fs[i].text = fs[j].text => i = j }

\* the sources the user can name: a file, a remote locator without and with
\* a query string (glob() finds no file for a locator), and a glob pattern
CandidateSources ==
    { [kind |-> "file", text |-> <<"api", ".md">>, ok |-> ok, files |-> <<>>] :
        ok \in BOOLEAN }
    \cup { [kind |-> "url", text |-> t, ok |-> ok, files |-> <<>>] :
              t \in { <<"https://", "host/api.json">>,
                      <<"https://", "host/api.json", "?", "v=2">> },
              ok \in BOOLEAN }
    \cup { [kind |-> "pattern", text |-> <<"docs/", "*", ".md">>, ok |-> TRUE,
            files |-> fs] : fs \in GlobFileLists }

\* the file system and the network do not change during the call: a name
\* stands for the same content wherever it occurs
SameContent(ss) ==
    LET named == { [text |-> ss[i].text, ok |-> ss[i].ok] : i \in 1..Len(ss) }
                 \cup UNION { { ss[i].files[k] : k \in 1..Len(ss[i].files) } :
                                i \in 1..Len(ss) }
    IN  \A a, b \in named : a.text = b.text => a.ok = b.ok

SourceLists ==
    { ss \in Str(CandidateSources, MaxSources) \ {<<>>} :
        /\ SameContent(ss)
        /\ \A i, j \in 1..Len(ss) : ss[i].text = ss[j].text => ss[i] = ss[j] }

InitParse ==
    /\ normPc = "parsing"
    /\ sources \in SourceLists
    /\ logged = {}
    /\ results = <<>>
    /\ current = EmptyParseResult
    /\ docConfig = NoOptions
    /\ config = resolveConfig(docConfig)
    /\ merged = EmptyParseResult
    /\ schema = EmptySchema
    /\ StrIdle /\ SseIdle /\ ReloadIdle /\ RouteIdle

\* parseAllDocumentation: one turn of the for-loop; a thrown error is logged
\* and thrown again
ParseSource ==
    /\ normPc = "parsing"
    /\ Len(results) < Len(sources)
    /\ LET src == sources[Len(results) + 1]
           out == parseSource(src)
       IN  IF out.threw
           THEN /\ logged' = logged \cup {src.text}
                /\ normPc' = "failed"
                /\ UNCHANGED results
           ELSE /\ logged' = logged \cup out.logged
                /\ results' = Append(results, out.result)
                /\ UNCHANGED normPc
    /\ UNCHANGED <<sources, current, docConfig, config, merged, schema, strVars,
                   sseVars, reloadVars, routeVars>>

\* parseAllDocumentation: return mergeParseResults(results); docmcp hands
\* the result to normalizeSchema
ReturnMerged ==
    /\ normPc = "parsing"
    /\ Len(results) = Len(sources)
    /\ merged' = mergeParseResults(results)
    /\ schema' = normalizeSchema(merged', config)
    /\ normPc' = "done"
    /\ UNCHANGED <<sources, logged, results, current, docConfig, config, strVars,
                   sseVars, reloadVars, routeVars>>

NextParse == ParseSource \/ ReturnMerged

SpecParse == InitParse /\ [][NextParse]_vars

---------------------------------------------------------------------------
(* Spec: the SSE adapter.  GET /sse opens a session, POST /message submits *)
(* a JSON-RPC request against a session identifier, the heartbeat timer    *)
(* writes keep-alives, the request's 'close' event removes the session.    *)
(* Handlers run to completion: Node delivers one callback at a time, and   *)
(* the only await of the POST handler resolves without leaving the tick's  *)
(* microtask queue, so each handler is one action.                         *)


Button == [id |-> <<"b","u","t","t","o","n">>, name |-> <<"B","u","t","t","o","n">>, summary |-> <<>>,
           content |-> <<"A"," ","c","l","i","c","k","a","b","l","e"," ","b","u","t","t","o","n">>]
Modal  == [id |-> <<"m","o","d","a","l">>, name |-> <<"M","o","d","a","l">>, summary |-> <<>>,
           content |-> <<"A"," ","d","i","a","l","o","g"," ","o","v","e","r","l","a","y">>]
Tabs   == [id |-> <<"t","a","b","s">>, name |-> <<"T","a","b","s">>, summary |-> <<"b","u","t","t","o","n"," ","g","r","o","u","p">>,
           content |-> <<>>]

Candidate(m, p, summary) ==
    [method |-> m, path |-> p, summary |-> summary, parameters |-> <<>>,
     responses |-> <<>>]

\* the parse results the served schemas are normalized from
SseParseResults ==
    { [EmptyParseResult EXCEPT
          !.metadata.version = "1.0.0",
          !.endpoints = << Candidate(GET, <<"/","u">>, "List"),
                           Candidate(POST, <<"/","u">>, None) >>,
          !.resources = << Button, Modal >>],
      [EmptyParseResult EXCEPT
          !.endpoints = << Candidate(GET, <<"/","a","/","b">>, "Nested"),
                           Candidate(GET, <<"/","a","_","b">>, "Flat") >>,
          !.resources = << Tabs, Button >>],
      \* one file with two sections of the same title, and an endpoint
      \* documented with and without the trailing slash
      [EmptyParseResult EXCEPT
          !.endpoints = << Candidate(GET, <<"/","u">>, "List"),
                           Candidate(GET, <<"/","u","/">>, "Slash") >>,
          !.resources = << Button, [Button EXCEPT !.content = <<"Again">>] >>],
      EmptyParseResult }

SseServed ==
    { [schema |-> normalizeSchema(pr, DefaultConfig), config |-> DefaultConfig] :
        pr \in SseParseResults }

Queries == { <<"b","u","t","t","o","n">>, <<"B","u","t","t","o","n">>, <<"D","I","A","L","O","G">>, <<"z">>, <<>> }

ListedToolNames(sch) ==
    { toolNameListed(sch.endpoints[k]) : k \in 1..Len(sch.endpoints) } \cup {SEARCH_DOCS}

ListedUris(sch) ==
    { DOC_SCHEME \o sch.resources[k].id : k \in 1..Len(sch.resources) }
    \cup { ENDPOINT_SCHEME \o sch.endpoints[k].method \o sch.endpoints[k].path :
             k \in 1..Len(sch.endpoints) }

CallParams(name, query, queryType) ==
    [present |-> TRUE, name |-> name, hasName |-> TRUE,
     query |-> query, queryType |-> queryType, uri |-> <<>>]

ReadParams(uri) ==
    [present |-> TRUE, name |-> <<>>, hasName |-> FALSE,
     query |-> <<>>, queryType |-> "undefined", uri |-> uri]

ToolsCallParams(sch) ==
    { NoParams, [NoParams EXCEPT !.present = TRUE] }
    \cup { CallParams(n, <<>>, "undefined") : n \in ListedToolNames(sch) \cup {<<"n","o">>} }
    \cup { CallParams(SEARCH_DOCS, q, "string") : q \in Queries }
    \cup { CallParams(SEARCH_DOCS, <<>>, "number") }

ResourcesReadParams(sch) ==
    { NoParams }
    \cup { ReadParams(u) : u \in ListedUris(sch)
              \cup { DOC_SCHEME \o <<"z">>, ENDPOINT_SCHEME \o GET \o <<"/","z">>, <<"z">> } }

Request(id, method, params) ==
    [type |-> "object", id |-> id, method |-> method, params |-> params]

\* the bodies a client can submit: nothing, null, a JSON string, or a call
\* object (its method possibly missing or unknown, its params possibly missing)
Bodies(sch, id) ==
    { [type |-> t, id |-> None, method |-> None, params |-> NoParams] :
        t \in {"undefined", "null", "string"} }
    \cup { Request(id, m, NoParams) :
             m \in {"initialize", "initialized", "tools/list", "resources/list",
                    "prompts/list", "ping", "bogus/method", None} }
    \cup { Request(id, "tools/call", ps) : ps \in ToolsCallParams(sch) }
    \cup { Request(id, "resources/read", ps) : ps \in ResourcesReadParams(sch) }

\* the schema the lifecycle of the sessions is run over
LifecycleServed ==
    [schema |-> normalizeSchema(EmptyParseResult, DefaultConfig), config |-> DefaultConfig]

Init ==
    /\ served = LifecycleServed
    /\ sessions = <<>> /\ nextId = 1
    /\ conn = [c \in 1..MaxSessions |-> "none"]
    /\ heartbeat = {} /\ failed = {}
    /\ channel = [c \in 1..MaxSessions |-> <<>>]
    /\ posts = 0 /\ lastPost = NoPost
    /\ StrIdle /\ NormIdle /\ ReloadIdle /\ RouteIdle

Event(event, data, sid) == [event |-> event, data |-> data, for |-> sid]

\* sendSseEvent / reply.raw.write on connection c: the event reaches the
\* channel while the connection is open; on a broken one the write is lost
Written(c, ev) ==
    IF conn[c] = "open" THEN [channel EXCEPT ![c] = Append(@, ev)] ELSE channel

\* mutant of sessionsSet: the new entry replaces the registry
sessionsSet_Replace(sessionId, session) == [k \in {sessionId} |-> session]

\* sessions.set(sessionId, session)
sessionsSet(sessionId, session) ==
    [k \in DOMAIN sessions \cup {sessionId} |->
        IF k = sessionId THEN session ELSE sessions[k]]

\* mutant of messageEndpoint: the address names no session
messageEndpoint_NoSession(sessionId) == [sessionId |-> 0]

\* `${basePath}/message?sessionId=${sessionId}`: the address the client posts
\* its messages to, as the session identifier it embeds
messageEndpoint(sessionId) == [sessionId |-> sessionId]

\* GET /sse: randomUUID() is a fresh identifier
OpenSession ==
    /\ nextId <= MaxSessions
    /\ LET sessionId == nextId
           session   == [id |-> sessionId, reply |-> sessionId,
                         schema |-> served.schema, config |-> served.config,
                         initialized |-> FALSE]
       IN  /\ sessions' = sessionsSet(sessionId, session)
           /\ conn' = [conn EXCEPT ![sessionId] = "open"]
           /\ channel' = [channel EXCEPT ![sessionId] =
                  Append(@, Event("endpoint", messageEndpoint(sessionId), sessionId))]
           /\ heartbeat' = heartbeat \cup {sessionId}
    /\ nextId' = nextId + 1
    /\ UNCHANGED <<served, posts, lastPost, failed, strVars, normVars, reloadVars, routeVars>>

\* the keep-alive events written so far on the connections 1..c
RECURSIVE Beats(_)
Beats(c) ==
    IF c = 0 THEN 0
    ELSE Len(SelectSeq(channel[c], LAMBDA ev : ev.event = "heartbeat")) + Beats(c - 1)

\* mutant of clearInterval: the timer keeps running
clearInterval_Running(c) == heartbeat

\* clearInterval(heartbeat) of the connection's timer
clearInterval(c) == heartbeat \ {c}

\* mutant of heartbeatCatch: the failure is swallowed, the timer left alone
heartbeatCatch_Swallow(c) == heartbeat

\* the catch block of the setInterval callback
heartbeatCatch(c) == clearInterval(c)

\* the setInterval callback, its write succeeding
Heartbeat(c) ==
    /\ c \in heartbeat
    /\ conn[c] = "open"
    /\ Beats(MaxSessions) < MaxBeats
    /\ channel' = Written(c, Event("heartbeat", [sessionId |-> c], c))
    /\ UNCHANGED <<served, sessions, nextId, conn, heartbeat, posts, lastPost,
                   failed, strVars, normVars, reloadVars, routeVars>>

\* the setInterval callback, its write throwing: clearInterval(heartbeat)
HeartbeatFails(c) ==
    /\ c \in heartbeat
    /\ conn[c] = "broken"
    /\ heartbeat' = heartbeatCatch(c)
    /\ failed' = failed \cup {c}
    /\ UNCHANGED <<served, sessions, nextId, conn, channel, posts, lastPost,
                   strVars, normVars, reloadVars, routeVars>>

\* the peer goes away; the 'close' event has not been delivered yet
SocketBreaks(c) ==
    /\ conn[c] = "open"
    /\ conn' = [conn EXCEPT ![c] = "broken"]
    /\ UNCHANGED <<served, sessions, nextId, heartbeat, channel, posts, lastPost,
                   failed, strVars, normVars, reloadVars, routeVars>>

\* mutant of sessionsDelete: the entry stays in the registry
sessionsDelete_Keep(sessionId) == sessions

\* sessions.delete(sessionId)
sessionsDelete(sessionId) == [k \in DOMAIN sessions \ {sessionId} |-> sessions[k]]

\* request.raw.on('close'): clearInterval(heartbeat); sessions.delete(sessionId)
Close(c) ==
    /\ conn[c] \in {"open", "broken"}
    /\ conn' = [conn EXCEPT ![c] = "closed"]
    /\ heartbeat' = clearInterval(c)
    /\ sessions' = sessionsDelete(c)
    /\ UNCHANGED <<served, nextId, channel, posts, lastPost, failed, strVars, normVars, reloadVars, routeVars>>

\* mutant of postChannel: the event goes to the channel of the session
\* opened first
postChannel_First(sessionId) ==
    sessions[CHOOSE k \in DOMAIN sessions : \A l \in DOMAIN sessions : k <= l].reply

\* the channel the POST handler writes the response to: session.reply of
\* sessions.get(sessionId)
postChannel(sessionId) == sessions[sessionId].reply

\* POST /message?sessionId=...; sessionId 0 is a missing identifier, nextId
\* one that no session has been given
PostMessage(sessionId, body) ==
    /\ posts < MaxPosts
    /\ posts' = posts + 1
    /\ IF sessionId = 0 \/ sessionId \notin DOMAIN sessions
       THEN /\ lastPost' = [sid |-> sessionId, status |-> 400, request |-> body,
                            body |-> <<"Invalid or missing session ID">>]
            /\ UNCHANGED <<sessions, channel>>
       ELSE LET session == sessions[sessionId]
                out     == handleMcpRequest(body, session)
            IN  IF out.escaped
                THEN \* the handler's promise rejects: the framework answers 500
                     /\ lastPost' = [sid |-> sessionId, status |-> 500, request |-> body,
                                     body |-> <<"TypeError">>]
                     /\ UNCHANGED <<sessions, channel>>
                ELSE /\ sessions' = [sessions EXCEPT ![sessionId].initialized = out.initialized]
                     /\ channel' = Written(postChannel(sessionId),
                                           Event("message", out.response, sessionId))
                     /\ lastPost' = [sid |-> sessionId, status |-> 200, request |-> body,
                                     body |-> out.response]
    /\ UNCHANGED <<served, nextId, conn, heartbeat, failed, strVars, normVars, reloadVars, routeVars>>

\* the bodies submitted while sessions open and close: one that escapes
\* and one call
LifecycleBodies(id) ==
    { [type |-> "undefined", id |-> None, method |-> None, params |-> NoParams],
      Request(id, "ping", NoParams) }

Next ==
    \/ OpenSession
    \/ \E c \in 1..MaxSessions : Heartbeat(c)
    \/ \E c \in 1..MaxSessions : HeartbeatFails(c)
    \/ \E c \in 1..MaxSessions : SocketBreaks(c)
    \/ \E c \in 1..MaxSessions : Close(c)
    \/ \E sessionId \in 0..nextId :
          \E body \in LifecycleBodies(ToString(posts + 1)) :
              PostMessage(sessionId, body)

Spec == Init /\ [][Next]_vars

\* SpecDispatch: the same handlers with every kind of request body, on the
\* sessions of MaxClients clients, which stay open
InitDispatch ==
    /\ served \in SseServed
    /\ sessions = <<>> /\ nextId = 1
    /\ conn = [c \in 1..MaxSessions |-> "none"]
    /\ heartbeat = {} /\ failed = {}
    /\ channel = [c \in 1..MaxSessions |-> <<>>]
    /\ posts = 0 /\ lastPost = NoPost
    /\ StrIdle /\ NormIdle /\ ReloadIdle /\ RouteIdle

\* the bodies a client of each served schema submits, before the request
\* identifier is filled in
BodiesServed == [sv \in SseServed |-> Bodies(sv.schema, "0")]

\* the call object with its JSON-RPC id
WithId(body, id) ==
    IF body.type = "object" THEN [body EXCEPT !.id = id] ELSE body

NextDispatch ==
    \/ (nextId <= MaxClients /\ OpenSession)
    \/ \E sessionId \in 0..(nextId - 1) :
          \E body \in BodiesServed[served] :
              PostMessage(sessionId, WithId(body, ToString(posts + 1)))

SpecDispatch == InitDispatch /\ [][NextDispatch]_vars

\* SpecFlag: sessions opened and closed while calls that do and do not set
\* the initialized flag are posted to them
FlagBodies(id) ==
    { Request(id, "initialized", NoParams),
      Request(id, "initialize", NoParams),
      Request(id, "ping", NoParams),
      [type |-> "undefined", id |-> None, method |-> None, params |-> NoParams] }

NextFlag ==
    \/ OpenSession
    \/ \E c \in 1..MaxSessions : Close(c)
    \/ \E sessionId \in 0..nextId :
          \E body \in FlagBodies(ToString(posts + 1)) :
              PostMessage(sessionId, body)

SpecFlag == InitDispatch /\ [][NextFlag]_vars

\* SpecRegistry: sessions opened and closed while calls of every outcome are
\* posted: one that escapes the handler, one that throws inside it, one
\* answered with an error, an unknown method, and two that succeed
RegistryBodies(id) ==
    { [type |-> "undefined", id |-> None, method |-> None, params |-> NoParams],
      Request(id, "tools/call", NoParams),
      Request(id, "resources/read", ReadParams(<<"z">>)),
      Request(id, "bogus/method", NoParams),
      Request(id, "initialized", NoParams),
      Request(id, "tools/list", NoParams) }

NextRegistry ==
    \/ OpenSession
    \/ \E c \in 1..MaxSessions : Close(c)
    \/ \E sessionId \in 0..nextId :
          \E body \in RegistryBodies(ToString(posts + 1)) :
              PostMessage(sessionId, body)

SpecRegistry == InitDispatch /\ [][NextRegistry]_vars

---------------------------------------------------------------------------
(* Claims about the normalizer (SpecNorm) *)

\* the candidates, in source order, that parseAllDocumentation handed over
Candidates == merged.endpoints

\* C3: in every schema returned by normalizeSchema no two endpoints have
\* the same (method, path) pair, method and path being the normalized
\* values stored in the schema.
C3_UniqueMethodPath ==
    normPc = "done" =>
        \A i, j \in 1..Len(schema.endpoints) :
            i # j => <<schema.endpoints[i].method, schema.endpoints[i].path>>
                     # <<schema.endpoints[j].method, schema.endpoints[j].path>>

\* candidates k and i carry the identical (method, path) pair
SamePair(k, i) ==
    /\ Candidates[k].method = Candidates[i].method
    /\ Candidates[k].path = Candidates[i].path

\* the endpoints of the schema that come from a candidate with the pair of
\* candidate i (a candidate is recognised by its summary)
KeptOfPair(i) ==
    { n \in 1..Len(schema.endpoints) :
        \E k \in 1..Len(Candidates) :
            SamePair(k, i) /\ schema.endpoints[n].summary = Candidates[k].summary }

FirstOfPair(i) == CHOOSE k \in 1..Len(Candidates) :
    SamePair(k, i) /\ \A l \in 1..Len(Candidates) : SamePair(l, i) => k <= l

HasPair(i) == Candidates[i].method # <<>> /\ Candidates[i].path # <<>>

Duplicated(i) == \E k \in 1..Len(Candidates) : k # i /\ SamePair(k, i)

KeepsExactlyFirst(i) ==
    /\ Cardinality(KeptOfPair(i)) = 1
    /\ \A n \in KeptOfPair(i) :
          LET c == Candidates[FirstOfPair(i)]
          IN  /\ schema.endpoints[n].summary = c.summary
              /\ schema.endpoints[n].responses = normalizeResponses(c.responses)

C6_AtLeastOneResponse ==
    normPc = "done" =>
        \A n \in 1..Len(schema.endpoints) :
            /\ Len(schema.endpoints[n].responses) >= 1
            /\ \A k \in 1..Len(Candidates) :
                  (Candidates[k].summary = schema.endpoints[n].summary
                      /\ Len(Candidates[k].responses) = 0)
                  => /\ Len(schema.endpoints[n].responses) = 1
                     /\ schema.endpoints[n].responses[1].statusCode = Status("200")

\* C6 witness: a candidate without responses made it into the schema
C6_Witness ==
    /\ normPc = "done"
    /\ \E n \in 1..Len(schema.endpoints), k \in 1..Len(Candidates) :
          /\ Candidates[k].summary = schema.endpoints[n].summary
          /\ Len(Candidates[k].responses) = 0

---------------------------------------------------------------------------
(* Claims about the string functions (SpecStr) *)

\* C5: normalizePath is idempotent: normalizing an already normalized path
\* returns it unchanged.
C5_PathIdempotent ==
    strPc = "twice" => twice = once

\* the three examples of C5: "/users/:id", "users/" and "/"
C5_Examples ==
    /\ normalizePath(<<"/","u","s","e","r","s","/",":","i","d">>)
         = <<"/","u","s","e","r","s","/","{","i","d","}">>
    /\ normalizePath(<<"u","s","e","r","s","/">>) = <<"/","u","s","e","r","s">>
    /\ normalizePath(<<"/">>) = <<"/">>

RECURSIVE GlobMatchFrom(_, _, _, _)
\* the pattern matches the whole path, '*' standing for any characters and
\* '?' for any one character, every other character for itself
GlobMatchFrom(pat, i, s, j) ==
    IF i > Len(pat) THEN j > Len(s)
    ELSE IF pat[i] = "*"
         THEN \/ GlobMatchFrom(pat, i + 1, s, j)
              \/ (j <= Len(s) /\ GlobMatchFrom(pat, i, s, j + 1))
         ELSE /\ j <= Len(s)
              /\ (pat[i] = "?" \/ pat[i] = s[j])
              /\ GlobMatchFrom(pat, i + 1, s, j + 1)

GlobMatches(p, pat) == GlobMatchFrom(pat, 1, p, 1)

GlobVisible(p, vis) ==
    /\ ~ \E k \in 1..Len(vis.exclude) : GlobMatches(p, vis.exclude[k])
    /\ \/ Len(vis.include) = 0
       \/ \E k \in 1..Len(vis.include) : GlobMatches(p, vis.include[k])

\* C7: isPathVisible is false whenever an exclude pattern matches the path;
\* otherwise it is true iff no include pattern is configured or one matches,
\* a pattern matching the whole path with '*' as any characters and '?' as
\* any one character.
C7_Visibility ==
    strPc = "visible" => (visible = GlobVisible(path, visibility))

\* the example of C7: include ["/api/*"], exclude ["/api/admin/*"]
C7_Examples ==
    LET api   == <<"/","a","p","i","/">>
        admin == api \o <<"a","d","m","i","n","/">>
        users == <<"u","s","e","r","s">>
        vis   == [include |-> << api \o <<"*">> >>, exclude |-> << admin \o <<"*">> >>]
    IN  /\ isPathVisible(api \o users, vis)
        /\ ~isPathVisible(admin \o users, vis)
        /\ ~isPathVisible(<<"/","o","t","h","e","r">>, vis)

---------------------------------------------------------------------------
(* Claims about the SSE adapter (Spec) and the dispatcher (SpecDispatch) *)

\* C1: session isolation: a message submitted with session A's identifier
\* writes its response event only to A's channel; every message event on a
\* channel was caused by a message submitted with that channel's own
\* session identifier.
C1_SessionIsolation ==
    \A c \in 1..MaxSessions :
        \A n \in 1..Len(channel[c]) :
            channel[c][n].event = "message" => channel[c][n].for = c

\* C1 witness: two sessions are open, a message was accepted for the later
\* one and its event is on that session's channel
C1_Witness ==
    /\ {1, 2} \subseteq DOMAIN sessions
    /\ lastPost.status = 200 /\ lastPost.sid = 2
    /\ \E n \in 1..Len(channel[2]) :
          channel[2][n].event = "message" /\ channel[2][n].data = lastPost.body

\* the last POST was accepted and dispatched a call object of this method
Dispatched(method) ==
    /\ lastPost.status = 200
    /\ lastPost.request.type = "object"
    /\ lastPost.request.method = method

\* the tool names tools/list returns on the session of the last POST
ToolsListed ==
    LET listed == handleToolsList("0", sessions[lastPost.sid]).result.tools
    IN  { listed[k].name : k \in 1..Len(listed) }

\* C8: tools/call with a name that tools/list returns on the same session
\* returns a result, never the "Unknown tool" error.
C8_ListedToolResolves ==
    (/\ Dispatched("tools/call")
     /\ lastPost.request.params.present
     /\ lastPost.request.params.hasName
     /\ lastPost.request.params.queryType # "number"
     /\ lastPost.request.params.name \in ToolsListed)
    => lastPost.body.kind = "result"

\* C8 witness: a tool listed for an endpoint was called and its document
\* came back
C8_Witness ==
    /\ Dispatched("tools/call")
    /\ lastPost.request.params.hasName
    /\ lastPost.request.params.name \in ToolsListed \ {SEARCH_DOCS}
    /\ lastPost.body.kind = "result"

\* q occurs in str, letter case ignored
ContainsIgnoringCase(str, q) ==
    \E k \in 0..(Len(str) - Len(q)) :
        \A m \in 1..Len(q) : LowerChar(str[k + m]) = LowerChar(q[m])

\* the resources of the session's schema that the query selects, in schema
\* order
Selected(q) ==
    LET all == sessions[lastPost.sid].schema.resources
    IN  Filter(all, { k \in 1..Len(all) :
                        \/ ContainsIgnoringCase(all[k].name, q)
                        \/ ContainsIgnoringCase(all[k].summary, q)
                        \/ ContainsIgnoringCase(all[k].content, q) }, 1)

SearchedFor ==
    /\ Dispatched("tools/call")
    /\ lastPost.request.params.present
    /\ lastPost.request.params.hasName
    /\ lastPost.request.params.name = SEARCH_DOCS
    /\ lastPost.request.params.queryType = "string"

\* C9: the search tool returns the sections of exactly the resources whose
\* name, summary or content contains the query as a case-insensitive
\* substring, in schema order, and "No results found" when there is none.
C9_SearchSelects ==
    SearchedFor =>
        LET hits == Selected(lastPost.request.params.query)
            text == lastPost.body.result.content[1].text
        IN  /\ lastPost.body.kind = "result"
            /\ IF Len(hits) = 0
               THEN text = <<"No results found">>
               ELSE text = Join([k \in 1..Len(hits) |-> searchSection(hits[k])],
                                <<"\n\n---\n\n">>)

\* C9 witness: with the resources Button and Modal, the query "button" came
\* back with Button's section alone; Modal is found by its content only
C9_Witness ==
    /\ SearchedFor
    /\ sessions[lastPost.sid].schema.resources = <<Button, Modal>>
    /\ \/ /\ lastPost.request.params.query = Button.id
          /\ lastPost.body.result.content[1].text = searchSection(Button)
       \/ /\ toLowerCase(lastPost.request.params.query) = <<"d","i","a","l","o","g">>
          /\ lastPost.body.result.content[1].text = searchSection(Modal)

\* C10: every request handed to handleMcpRequest comes back as a response
\* holding a result or a structured error; nothing is thrown to the POST
\* handler (which would answer 500).
C10_NothingEscapes ==
    lastPost.status \in {0, 400, 200}
    /\ (lastPost.status = 200 => lastPost.body.kind \in {"result", "error"})

\* the part of C10 that the try block does cover: a tools/call or a
\* resources/read without params is answered with the internal error -32603
C10_CaughtInside ==
    (/\ lastPost.status = 200
     /\ lastPost.request.type = "object"
     /\ lastPost.request.method \in {"tools/call", "resources/read"}
     /\ ~lastPost.request.params.present)
    => (lastPost.body.kind = "error" /\ lastPost.body.code = -32603)

---------------------------------------------------------------------------
(* server/router.ts: the endpoints handler *)

\* SpecEndpoints: the endpoints handler on schemas whose endpoints carry
\* tags and the deprecated flag, asked with every combination of filters
Users == <<"u","s","e","r","s">>
Admin == <<"a","d","m","i","n">>
TaggedEndpoints ==
    << [method |-> GET,  path |-> <<"/","u">>, summary |-> "1",
        tags |-> <<Users>>, deprecated |-> "false"],
       [method |-> POST, path |-> <<"/","u">>, summary |-> "2",
        tags |-> <<Users, Admin>>, deprecated |-> "true"],
       [method |-> GET,  path |-> <<"/","v">>, summary |-> "3",
        tags |-> <<>>, deprecated |-> "false"] >>

\* the schemas made of some of these endpoints, in their sorted order
TaggedSchemas ==
    { [metadata |-> DEFAULT_METADATA, resources |-> <<>>,
       endpoints |-> SelectSeq(TaggedEndpoints, LAMBDA e : e.summary \in keep)] :
        keep \in SUBSET {"1", "2", "3"} }

\* the query objects the adapters build from the request's query string,
\* and no query at all (handlers.endpoints())
EndpointsQueries ==
    { [present |-> TRUE, tag |-> t, method |-> m, path |-> p, deprecated |-> d] :
        t \in { Undefined, QueryString(<<>>), QueryString(<<"u","s">>),
                QueryString(Users), QueryString(Admin) },
        m \in { Undefined, QueryString(<<"g","e","t">>), QueryString(POST) },
        p \in { Undefined, QueryString(<<"/","u">>), QueryString(<<"v">>) },
        d \in { None, "true", "false" } }
    \cup { NoQuery }

InitEndpoints ==
    /\ routeSchema \in TaggedSchemas
    /\ routeQuery = NoQuery
    /\ routeResponse = NoResponse
    /\ StrIdle /\ NormIdle /\ SseIdle /\ ReloadIdle

\* GET <basePath>/endpoints, or handlers.endpoints(query)
GetEndpoints ==
    /\ \E query \in EndpointsQueries :
          /\ routeQuery' = query
          /\ routeResponse' = handleEndpoints(routeSchema, query)
    /\ UNCHANGED <<routeSchema, strVars, normVars, sseVars, reloadVars>>

NextEndpoints == GetEndpoints

SpecEndpoints == InitEndpoints /\ [][NextEndpoints]_vars

---------------------------------------------------------------------------
(* SpecReload: docmcp() mounted on an application, the file edited,        *)
(* reload() called (calls may overlap), describe asked on the mounted      *)
(* route and on the instance's handlers.                                   *)

\* the state docmcp(app, config) returns in: the source parsed, the schema
\* normalized, the handlers of the instance created, and the adapter's
\* routes mounted with handlers of their own over the same schema
InitReload ==
    /\ source \in { c \in Contents : c.ok }
    /\ \E md \in OptionsMetadata :
          resolvedConfig = resolveConfig([visibility |-> DEFAULT_VISIBILITY,
                                          metadata |-> md])
    /\ LET sch == buildSchema(parseAllDocumentation(source), resolvedConfig, 0)
       IN  /\ instance = [schema |-> sch, handlers |-> createMcpHandlers(sch)]
           /\ mounted = createMcpHandlers(sch)
    /\ reloads = [r \in 1..MaxReloads |-> IdleReload]
    /\ resolved = <<>> /\ clock = 1 /\ edits = 0
    /\ described = NoDescribe
    /\ StrIdle /\ NormIdle /\ SseIdle /\ RouteIdle

\* the file is rewritten, or removed, or restored
EditSource ==
    /\ edits < MaxEdits
    /\ source' \in Contents \ {source}
    /\ edits' = edits + 1
    /\ UNCHANGED <<resolvedConfig, instance, mounted, reloads, resolved, clock,
                   described, strVars, normVars, sseVars, routeVars>>

\* instance.reload() is called: it runs up to the await of the parse
StartReload(r) ==
    /\ reloads[r].pc = "idle"
    /\ \A q \in 1..(r - 1) : reloads[q].pc # "idle"
    /\ reloads' = [reloads EXCEPT ![r].pc = "parsing"]
    /\ UNCHANGED <<source, resolvedConfig, instance, mounted, resolved, clock,
                   edits, described, strVars, normVars, sseVars, routeVars>>

\* mutant of parseFails: a source that cannot be read gives a result
parseFails_Never(content) == FALSE

\* parseAllDocumentation: the catch logs and throws again when the source
\* cannot be found or parsed
parseFails(content) == ~content.ok

\* the parse of the call reads the file; a file that cannot be found or
\* parsed makes parseAllDocumentation throw, and reload() rejects
ReadSource(r) ==
    /\ reloads[r].pc = "parsing"
    /\ reloads' = IF ~parseFails(source)
                  THEN [reloads EXCEPT ![r] = [pc |-> "parsed",
                                               read |-> parseAllDocumentation(source)]]
                  ELSE [reloads EXCEPT ![r].pc = "rejected"]
    /\ UNCHANGED <<source, resolvedConfig, instance, mounted, resolved, clock,
                   edits, described, strVars, normVars, sseVars, routeVars>>

\* the call resumes after the await: schema and handlers of the closure
\* are replaced, and the promise resolves
FinishReload(r) ==
    /\ reloads[r].pc = "parsed"
    /\ LET sch == buildSchema(reloads[r].read, resolvedConfig, clock)
       IN  instance' = [schema |-> sch, handlers |-> createMcpHandlers(sch)]
    /\ clock' = clock + 1
    /\ reloads' = [reloads EXCEPT ![r].pc = "resolved"]
    /\ resolved' = Append(resolved, r)
    /\ UNCHANGED <<source, resolvedConfig, mounted, edits, described,
                   strVars, normVars, sseVars, routeVars>>

\* a reload() has resolved, none is running, and the one that resolved last
\* parsed the file as it is now
ReloadSettled ==
    /\ Len(resolved) > 0
    /\ \A r \in 1..MaxReloads : reloads[r].pc \notin {"parsing", "parsed"}
    /\ source.ok
    /\ reloads[resolved[Len(resolved)]].read = parseAllDocumentation(source)

\* GET <basePath>/describe on the application: the route runs the handler
\* the adapter created when it mounted
DescribeRoute ==
    /\ described' = [via |-> "route", settled |-> ReloadSettled, at |-> source,
                     response |-> handleDescribe(mounted.schema)]
    /\ UNCHANGED <<source, resolvedConfig, instance, mounted, reloads, resolved,
                   clock, edits, strVars, normVars, sseVars, routeVars>>

\* instance.getHandlers().describe()
DescribeInstance ==
    /\ described' = [via |-> "instance", settled |-> ReloadSettled, at |-> source,
                     response |-> handleDescribe(instance.handlers.schema)]
    /\ UNCHANGED <<source, resolvedConfig, instance, mounted, reloads, resolved,
                   clock, edits, strVars, normVars, sseVars, routeVars>>

NextReload ==
    \/ EditSource
    \/ \E r \in 1..MaxReloads : StartReload(r)
    \/ \E r \in 1..MaxReloads : ReadSource(r)
    \/ \E r \in 1..MaxReloads : FinishReload(r)
    \/ DescribeRoute
    \/ DescribeInstance

SpecReload == InitReload /\ [][NextReload]_vars

\* SpecOverlap: the same instance with the file edited and reload() called,
\* without the describe requests
NextOverlap ==
    \/ EditSource
    \/ \E r \in 1..MaxReloads : StartReload(r)
    \/ \E r \in 1..MaxReloads : ReadSource(r)
    \/ \E r \in 1..MaxReloads : FinishReload(r)

SpecOverlap == InitReload /\ [][NextOverlap]_vars

---------------------------------------------------------------------------
(* Claims about reload *)

\* what describe reports of the documentation: everything but the time
Reported(response) ==
    [name |-> response.name, version |-> response.version,
     contact |-> response.contact]

\* what the sources, parsed and normalized anew when the describe started,
\* make describe report
NewlyParsed ==
    Reported(handleDescribe(buildSchema(parseAllDocumentation(described.at),
                                        resolvedConfig, 0)))

\* C2: once reload() has resolved after the source changed, a describe that
\* starts afterwards and is served by the mounted describe route reports the
\* values of the newly parsed sources.
C2_MountedDescribeFresh ==
    (described.via = "route" /\ described.settled)
    => Reported(described.response) = NewlyParsed

\* the same describe asked of instance.getHandlers() does report them
C2_InstanceDescribeFresh ==
    (described.via = "instance" /\ described.settled)
    => Reported(described.response) = NewlyParsed

---------------------------------------------------------------------------
(* The session registry and the channels, checked on Spec.                 *)

\* the identifier names no live session: it is missing, was never given to
\* a session, or its session's close has been handled
NoLiveSession(sessionId) ==
    \/ sessionId = 0
    \/ sessionId > MaxSessions
    \/ conn[sessionId] \in {"none", "closed"}

\* C11: a message submitted with a missing, never-opened or closed session
\* identifier is answered with the client error, nothing is dispatched, no
\* event is written to any channel, and the registry is unchanged
C11_UnknownSessionRejected ==
    [][(posts' = posts + 1 /\ NoLiveSession(lastPost'.sid))
       => /\ lastPost'.status = 400
          /\ lastPost'.body = <<"Invalid or missing session ID">>
          /\ sessions' = sessions
          /\ channel' = channel]_vars

\* the first message was accepted on session 1, the second one, sent to the
\* same identifier after the close, was rejected
C11_Witness ==
    /\ conn[1] = "closed"
    /\ \E i \in 1..Len(channel[1]) :
          channel[1][i].event = "message" /\ channel[1][i].data.id = "1"
    /\ lastPost.sid = 1 /\ lastPost.status = 400 /\ lastPost.request.id = "2"

\* C12: for every call object submitted to a registered session whose
\* connection is open, the response dispatch computes is written exactly once,
\* as a message event on that session's channel and on no other, and the same
\* response, carrying the id of the request, is the body of the answer
C12_ResponseOnceOnBoth ==
    [][(/\ posts' = posts + 1
        /\ ~NoLiveSession(lastPost'.sid)
        /\ conn[lastPost'.sid] = "open"
        /\ lastPost'.request.type = "object")
       => LET sid == lastPost'.sid
              out == handleMcpRequest(lastPost'.request, sessions[sid])
          IN  /\ ~out.escaped
              /\ lastPost'.status = 200
              /\ lastPost'.body = out.response
              /\ lastPost'.body.id = lastPost'.request.id
              /\ channel'[sid] = Append(channel[sid],
                                        Event("message", lastPost'.body, sid))
              /\ \A c \in 1..MaxSessions : c # sid => channel'[c] = channel[c]]_vars

\* a listing call was answered: its result is the last event of the session's
\* channel and the body of the answer, both with the request's id
C12_Witness ==
    /\ lastPost.status = 200
    /\ lastPost.request.type = "object"
    /\ lastPost.request.method = "tools/list"
    /\ lastPost.body.kind = "result"
    /\ lastPost.body.id = lastPost.request.id
    /\ Len(channel[lastPost.sid]) >= 2
    /\ channel[lastPost.sid][Len(channel[lastPost.sid])] =
          Event("message", lastPost.body, lastPost.sid)

\* the channel the step's submission wrote its message event to, 0 when the
\* step submitted nothing or the submission was not answered with a response
WrittenByPost ==
    IF posts' = posts + 1 /\ lastPost'.status = 200
    THEN sessions[lastPost'.sid].reply
    ELSE 0

\* C13: once the close of a session's connection has been handled, the
\* session is absent from the registry, its keep-alive timer is not active,
\* and no step (a submission or a keep-alive tick, in any order with the
\* close) writes to its channel
C13_ClosedSessionSilent ==
    /\ [](\A c \in 1..MaxSessions :
            conn[c] = "closed" => (c \notin DOMAIN sessions /\ c \notin heartbeat))
    /\ [][\A c \in 1..MaxSessions :
            conn[c] = "closed" => (channel'[c] = channel[c] /\ WrittenByPost # c)]_vars

\* session 1 received a keep-alive and a message, was closed, and a message
\* was then submitted to it
C13_Witness ==
    /\ conn[1] = "closed"
    /\ 1 \notin DOMAIN sessions
    /\ \E i \in 1..Len(channel[1]) : channel[1][i].event = "heartbeat"
    /\ \E i \in 1..Len(channel[1]) : channel[1][i].event = "message"
    /\ lastPost.sid = 1 /\ lastPost.request.id = "2"

\* the keep-alive events connection c received
KeepAlives(c) == SelectSeq(channel[c], LAMBDA ev : ev.event = "heartbeat")

\* a keep-alive write on the connection threw, or its close was handled
TimerStopped(c) == c \in failed \/ conn[c] = "closed"

\* C14: after the first keep-alive write that throws, or after the close of
\* the connection, whichever comes first, the connection's timer is not
\* active and no keep-alive is written to it any more
C14_KeepAliveStops ==
    /\ [](\A c \in 1..MaxSessions : TimerStopped(c) => c \notin heartbeat)
    /\ [][\A c \in 1..MaxSessions :
            TimerStopped(c) => (KeepAlives(c)' = KeepAlives(c) /\ TimerStopped(c)')]_vars

\* connection 1 received a keep-alive, then broke, and the next keep-alive
\* write threw before the close was handled
C14_Witness ==
    /\ conn[1] = "broken"
    /\ 1 \in failed
    /\ Len(KeepAlives(1)) = 1
    /\ 1 \in DOMAIN sessions

---------------------------------------------------------------------------
(* Claims about parameters, metadata and merging *)

\* C15: in the normalized schema every parameter located in the path is
\* required, whatever the source declared, and every parameter has a type
C15_PathRequiredAndTyped ==
    normPc = "done" =>
        \A i \in 1..Len(schema.endpoints) :
            \A k \in 1..Len(schema.endpoints[i].parameters) :
                LET param == schema.endpoints[i].parameters[k]
                IN  /\ param.in = "path" => param.required = "true"
                    /\ Truthy(param.type)

\* what does hold: every normalized parameter has a type
C15_Typed ==
    normPc = "done" =>
        \A i \in 1..Len(schema.endpoints) :
            \A k \in 1..Len(schema.endpoints[i].parameters) :
                Truthy(schema.endpoints[i].parameters[k].type)

\* the value the stated precedence gives a metadata field: the one set in
\* the user's configuration, else the one parsed from the sources, else the
\* hard-coded default
StatedMetadata(field) ==
    IF Truthy(docConfig.metadata[field]) THEN docConfig.metadata[field]
    ELSE IF Truthy(merged.metadata[field]) THEN merged.metadata[field]
    ELSE DEFAULT_METADATA[field]

\* C16: in the schema docmcp builds, title, description and version are the
\* configured value if the user set one, else the value parsed from the
\* sources, else the hard-coded default
C16_MetadataPrecedence ==
    normPc = "done" =>
        \A field \in {"title", "description", "version"} :
            schema.metadata[field] = StatedMetadata(field)

\* what does hold: a value set in the configuration wins, and the default is
\* used when neither the configuration nor the sources give one
C16_ConfiguredOrDefault ==
    normPc = "done" =>
        \A field \in {"title", "description", "version"} :
            (Truthy(docConfig.metadata[field]) \/ ~Truthy(merged.metadata[field]))
                => schema.metadata[field] = StatedMetadata(field)

\* the resources of all the parse results, in source order
RECURSIVE ResourcesFrom(_)
ResourcesFrom(i) ==
    IF i > Len(results) THEN <<>> ELSE results[i].resources \o ResourcesFrom(i + 1)

\* the position of the first resource of `all` with the identifier
FirstWithId(all, id) ==
    CHOOSE j \in 1..Len(all) : all[j].id = id /\ \A k \in 1..(j - 1) : all[k].id # id

\* the identifiers are pairwise distinct, and each identifier of the sources
\* is kept with its first occurrence
DistinctFirstOccurrences(kept, all) ==
    /\ \A i, j \in 1..Len(kept) : kept[i].id = kept[j].id => i = j
    /\ \A j \in 1..Len(all) : \E i \in 1..Len(kept) : kept[i].id = all[j].id
    /\ \A i \in 1..Len(kept) :
          /\ \E j \in 1..Len(all) : all[j].id = kept[i].id
          /\ kept[i] = all[FirstWithId(all, kept[i].id)]

\* C17: after merging zero, one or more parse results, the resource
\* identifiers of the merged result and of the normalized schema are pairwise
\* distinct, and the resource kept for an identifier is its first occurrence
\* in source order
C17_ResourceIdsDistinct ==
    normPc = "done" =>
        /\ DistinctFirstOccurrences(merged.resources, ResourcesFrom(1))
        /\ schema.resources = merged.resources

\* what does hold: the same when two or more parse results are merged
C17_DistinctWhenSeveral ==
    (normPc = "done" /\ Len(results) >= 2) =>
        /\ DistinctFirstOccurrences(merged.resources, ResourcesFrom(1))
        /\ schema.resources = merged.resources

---------------------------------------------------------------------------
(* Claims about parseAllDocumentation (SpecParse) *)

\* the identifiers of the resources of the merged result
MergedIds == { merged.resources[i].id : i \in 1..Len(merged.resources) }

\* the files the patterns among the sources expand to
ExpandedFiles ==
    UNION { { sources[i].files[k] : k \in 1..Len(sources[i].files) } :
              i \in { j \in 1..Len(sources) : sources[j].kind = "pattern" } }

\* a source the user named explicitly that cannot be read or parsed
NamedSourceFails ==
    \E i \in 1..Len(sources) : sources[i].kind # "pattern" /\ ~sources[i].ok

\* C18: a failing file that a glob pattern expanded to is logged and
\* skipped, and the other files are merged into the result; a failing source
\* that was named explicitly makes the whole call fail, without a merged
\* result
C18_GlobSkipsNamedFails ==
    /\ normPc = "done" =>
          /\ ~NamedSourceFails
          /\ \A f \in ExpandedFiles :
                IF f.ok THEN f.text \in MergedIds
                ELSE f.text \in logged /\ f.text \notin MergedIds
    /\ normPc = "failed" => (NamedSourceFails /\ merged = EmptyParseResult)

\* what does hold: the same for named sources whose text has none of the
\* characters '*', '?' and '{'
C18_PlainNamesFail ==
    /\ normPc = "done" =>
          /\ \A i \in 1..Len(sources) :
                (sources[i].kind # "pattern" /\ ~isGlobPattern(sources[i].text))
                    => sources[i].ok
          /\ \A f \in ExpandedFiles :
                IF f.ok THEN f.text \in MergedIds
                ELSE f.text \in logged /\ f.text \notin MergedIds
    /\ normPc = "failed" => (NamedSourceFails /\ merged = EmptyParseResult)

---------------------------------------------------------------------------
(* Claims about resources/read (SpecDispatch) and the initialized flag (SpecFlag) *)

\* the text resources/read gives for a documentation resource
ResourceText(r) ==
    IF r.content # <<>> THEN r.content ELSE <<"# ">> \o r.name \o <<"\n\n">> \o r.summary

\* the last POST read a locator that resources/list returns on its session
ReadListed ==
    /\ Dispatched("resources/read")
    /\ lastPost.request.params.present
    /\ lastPost.request.params.uri \in ListedUris(sessions[lastPost.sid].schema)

\* the last POST read a locator that resources/list does not return
ReadUnlisted ==
    /\ Dispatched("resources/read")
    /\ lastPost.request.params.present
    /\ lastPost.request.params.uri \notin ListedUris(sessions[lastPost.sid].schema)

\* C19: resources/read of a locator that resources/list returns for a
\* resource or an endpoint of the session's schema gives, without error, the
\* text of that resource or the formatted document of that endpoint; any
\* other locator gives a structured error
C19_ListedLocatorResolves ==
    LET sch  == sessions[lastPost.sid].schema
        uri  == lastPost.request.params.uri
        text == lastPost.body.result.contents[1].text
    IN  /\ ReadListed =>
              (/\ lastPost.body.kind = "result"
               /\ \A k \in 1..Len(sch.resources) :
                     (DOC_SCHEME \o sch.resources[k].id = uri)
                         => (text = ResourceText(sch.resources[k]))
               /\ \A k \in 1..Len(sch.endpoints) :
                     (ENDPOINT_SCHEME \o sch.endpoints[k].method
                         \o sch.endpoints[k].path = uri)
                         => (text = formatEndpointDocs(sch.endpoints[k])))
        /\ ReadUnlisted =>
              (lastPost.body.kind = "error" /\ lastPost.body.code = -32602)

\* what does hold: a listed locator gives a result, the text of some
\* resource or endpoint listed under it, and an unlisted one the error
C19_ListedLocatorGivesResult ==
    LET sch  == sessions[lastPost.sid].schema
        uri  == lastPost.request.params.uri
        text == lastPost.body.result.contents[1].text
    IN  /\ ReadListed =>
              (/\ lastPost.body.kind = "result"
               /\ \/ \E k \in 1..Len(sch.resources) :
                        /\ DOC_SCHEME \o sch.resources[k].id = uri
                        /\ text = ResourceText(sch.resources[k])
                  \/ \E k \in 1..Len(sch.endpoints) :
                        /\ ENDPOINT_SCHEME \o sch.endpoints[k].method
                              \o sch.endpoints[k].path = uri
                        /\ text = formatEndpointDocs(sch.endpoints[k]))
        /\ ReadUnlisted =>
              (lastPost.body.kind = "error" /\ lastPost.body.code = -32602)

\* the step is a POST, dispatched on session c, of an `initialized` call
InitializedDispatchedOn(c) ==
    /\ posts' = posts + 1
    /\ lastPost'.sid = c
    /\ lastPost'.status = 200
    /\ lastPost'.request.method = "initialized"

\* C20: a session is created with its initialized flag false; the flag of a
\* registered session becomes true only in a step that dispatches an
\* `initialized` call on that same session, and such a step does make it
\* true; once true it stays true for as long as the session is registered;
\* a call of any other method, or on any other session, changes no flag
C20_InitializedFlag ==
    [][\A c \in 1..MaxSessions :
          /\ (c \notin DOMAIN sessions /\ c \in DOMAIN sessions')
                => ~sessions'[c].initialized
          /\ (c \in DOMAIN sessions /\ c \in DOMAIN sessions')
                => /\ sessions[c].initialized => sessions'[c].initialized
                   /\ (~sessions[c].initialized /\ sessions'[c].initialized)
                         => InitializedDispatchedOn(c)
                   /\ InitializedDispatchedOn(c) => sessions'[c].initialized
    ]_vars

\* one session has been initialized, and a call dispatched afterwards on
\* another registered session has left that one's flag false
C20_Witness ==
    \E c, d \in DOMAIN sessions :
        /\ c # d
        /\ sessions[c].initialized
        /\ ~sessions[d].initialized
        /\ lastPost.sid = d
        /\ lastPost.status = 200

---------------------------------------------------------------------------
(* Claims about the session registry (SpecRegistry) *)

\* the step inserts one entry, under an identifier no connection was given
SessionOpened ==
    /\ posts' = posts
    /\ \E c \in 1..MaxSessions :
          /\ conn[c] = "none" /\ conn'[c] = "open"
          /\ c \notin DOMAIN sessions
          /\ DOMAIN sessions' = DOMAIN sessions \cup {c}

\* the step deletes the entry of one connection, whose close is handled
ConnectionClosed ==
    /\ posts' = posts
    /\ \E c \in DOMAIN sessions :
          /\ conn[c] # "closed" /\ conn'[c] = "closed"
          /\ DOMAIN sessions' = DOMAIN sessions \ {c}

\* C21: the set of registry entries changes only in a step that opens a
\* session (one insert of a fresh identifier) or handles a connection's
\* close (one delete of that identifier); a step that submits a message,
\* whatever its method and outcome, leaves the set of entries unchanged; and
\* no step changes the schema held by a session that stays registered
C21_RegistryWrittenAtOpenAndClose ==
    [][/\ (DOMAIN sessions' # DOMAIN sessions) => (SessionOpened \/ ConnectionClosed)
       /\ (posts' # posts) => (DOMAIN sessions' = DOMAIN sessions)
       /\ \A c \in DOMAIN sessions \cap DOMAIN sessions' :
             sessions'[c].schema = sessions[c].schema
    ]_vars

\* one session was opened and closed, and on another registered session a
\* call was dispatched that failed
C21_Witness ==
    /\ \E c \in 1..MaxSessions : conn[c] = "closed"
    /\ lastPost.sid \in DOMAIN sessions
    /\ lastPost.status = 200
    /\ lastPost.body.kind = "error"

\* the events of one kind on the channel of connection c
EventsOf(c, kind) == SelectSeq(channel[c], LAMBDA ev : ev.event = kind)

\* C22: on every channel that has been written to, the first event is the
\* 'endpoint' event whose address embeds that connection's own session
\* identifier, and no later event of the channel is an 'endpoint' event, so
\* it precedes every keep-alive and every message; in the step that writes
\* it, it is the only event written and the session is in the registry
C22_EndpointEventFirst ==
    /\ [](\A c \in 1..MaxSessions :
             channel[c] # <<>> =>
                /\ channel[c][1].event = "endpoint"
                /\ channel[c][1].data = [sessionId |-> c]
                /\ Len(EventsOf(c, "endpoint")) = 1)
    /\ [][\A c \in 1..MaxSessions :
             (channel[c] = <<>> /\ channel'[c] # <<>>) =>
                /\ Len(channel'[c]) = 1
                /\ c \in DOMAIN sessions'
                /\ sessions'[c].id = c]_vars

\* a channel holds its endpoint event, a keep-alive and a message
C22_Witness ==
    \E c \in 1..MaxSessions :
        /\ Len(EventsOf(c, "endpoint")) = 1
        /\ Len(EventsOf(c, "heartbeat")) >= 1
        /\ Len(EventsOf(c, "message")) >= 1

---------------------------------------------------------------------------
(* Claims about the order and the methods of the endpoints (SpecSort, SpecMethod) *)

\* the method precedence the claim states: GET, POST, PUT, PATCH, DELETE,
\* HEAD, OPTIONS, any other method last
MethodRank(method) ==
    LET fixed == << GET, POST, <<"P","U","T">>, <<"P","A","T","C","H">>,
                    <<"D","E","L","E","T","E">>, <<"H","E","A","D">>,
                    <<"O","P","T","I","O","N","S">> >>
    IN  IF \E k \in 1..Len(fixed) : fixed[k] = method
        THEN CHOOSE k \in 1..Len(fixed) : fixed[k] = method
        ELSE Len(fixed) + 1

\* C23 as stated: in the endpoint list of a normalized schema, an earlier
\* endpoint has a path that is lexicographically less than a later one's,
\* or the same path and a method that does not come later in the order GET,
\* POST, PUT, PATCH, DELETE, HEAD, OPTIONS, other
C23_SortedByPathThenMethod ==
    normPc = "done" =>
        \A i, j \in 1..Len(schema.endpoints) :
            i < j =>
                \/ LexLess(schema.endpoints[i].path, schema.endpoints[j].path)
                \/ /\ schema.endpoints[i].path = schema.endpoints[j].path
                   /\ MethodRank(schema.endpoints[i].method)
                         <= MethodRank(schema.endpoints[j].method)

\* C23: in the endpoint list of a normalized schema, an earlier endpoint has
\* a path that localeCompare ranks before a later one's, or the same path
\* and a method that does not come later in the order GET, POST, PUT, PATCH,
\* DELETE, HEAD, OPTIONS, other
C23_SortedByCollation ==
    normPc = "done" =>
        \A i, j \in 1..Len(schema.endpoints) :
            i < j =>
                \/ localeCompare(schema.endpoints[i].path, schema.endpoints[j].path) < 0
                \/ /\ schema.endpoints[i].path = schema.endpoints[j].path
                   /\ MethodRank(schema.endpoints[i].method)
                         <= MethodRank(schema.endpoints[j].method)

\* a schema of three endpoints, two of them on one path with different
\* methods, and two on paths that the collation and the code units rank
\* in opposite orders
C23_Witness ==
    /\ normPc = "done"
    /\ Len(schema.endpoints) = 3
    /\ \E i, j \in 1..3 :
          /\ i < j
          /\ schema.endpoints[i].path = schema.endpoints[j].path
          /\ schema.endpoints[i].method # schema.endpoints[j].method
    /\ \E i, j \in 1..3 :
          /\ i < j
          /\ LexLess(schema.endpoints[j].path, schema.endpoints[i].path)

\* the fixed enumeration of methods
MethodEnumeration == { toUpperCase(m) : m \in HTTP_METHODS }

\* C24: every endpoint of a normalized schema has a method of the fixed
\* enumeration GET, POST, PUT, PATCH, DELETE, HEAD, OPTIONS, whatever method
\* strings the sources supplied
C24_MethodInEnumeration ==
    normPc = "done" =>
        \A k \in 1..Len(schema.endpoints) :
            schema.endpoints[k].method \in MethodEnumeration

\* what holds: every method of the schema is in upper case, and the
\* endpoints that the OpenAPI and markdown parsers returned have a method
\* of the enumeration
C24_UpperCaseAndBuiltInEnumerated ==
    normPc = "done" =>
        \A k \in 1..Len(schema.endpoints) :
            /\ schema.endpoints[k].method = toUpperCase(schema.endpoints[k].method)
            /\ schema.endpoints[k].summary \in {"markdown", "openapi"}
                  => schema.endpoints[k].method \in MethodEnumeration

---------------------------------------------------------------------------
(* Claims about the source descriptor (SpecSource) *)

\* the identifier looks like a prose file
LooksProse(s) == endsWithPiece(s, ".md") \/ endsWithPiece(s, ".markdown")

\* the identifier looks like a structured-spec file, by extension or by
\* name marker
LooksSpec(s) ==
    \/ includesPiece(s, "openapi") \/ includesPiece(s, "swagger")
    \/ endsWithPiece(s, ".yaml") \/ endsWithPiece(s, ".yml")
    \/ endsWithPiece(s, ".json")

AllProse == \A k \in 1..Len(sources) : LooksProse(sources[k])
AllSpec  == \A k \in 1..Len(sources) : LooksSpec(sources[k])

\* C25: the source type of the schema is 'markdown' iff every source
\* identifier looks like a prose file, 'openapi' iff every source
\* identifier looks like a structured-spec file, and 'mixed' otherwise
C25_SourceTypeByAllSources ==
    normPc = "done" =>
        /\ (schema.source.type = "markdown") <=> AllProse
        /\ (schema.source.type = "openapi") <=> AllSpec
        /\ (schema.source.type = "mixed") <=> (~AllProse /\ ~AllSpec)

\* what holds: 'mixed' iff some identifier looks like a spec file and some
\* (possibly the same) like a prose file, 'markdown' iff some looks like a
\* prose file and none like a spec file, 'openapi' iff none looks like a
\* prose file
C25_SourceTypeBySomeSource ==
    normPc = "done" =>
        LET someProse == \E k \in 1..Len(sources) : LooksProse(sources[k])
            someSpec  == \E k \in 1..Len(sources) : LooksSpec(sources[k])
        IN  /\ (schema.source.type = "mixed") <=> (someProse /\ someSpec)
            /\ (schema.source.type = "markdown") <=> (someProse /\ ~someSpec)
            /\ (schema.source.type = "openapi") <=> ~someProse
            /\ schema.source.files = sources

---------------------------------------------------------------------------
(* Claims about the endpoints handler (SpecEndpoints) *)

\* a filter is supplied when its parameter is a non-empty string
Supplied(q) == q.defined /\ q.value # <<>>

\* the endpoint satisfies the filters the claim states: the tag query is a
\* substring of one of its tags, the method is equal ignoring case, the
\* path query is a substring of its path, deprecated is equal
SatisfiesStated(e, query) ==
    /\ Supplied(query.tag)
          => \E t \in 1..Len(e.tags) : includes(e.tags[t], query.tag.value)
    /\ Supplied(query.method)
          => toLowerCase(e.method) = toLowerCase(query.method.value)
    /\ Supplied(query.path) => includes(e.path, query.path.value)
    /\ query.deprecated # None => e.deprecated = query.deprecated

\* the same with the tag query equal to one of the endpoint's tags
SatisfiesExactTag(e, query) ==
    /\ Supplied(query.tag) => \E t \in 1..Len(e.tags) : e.tags[t] = query.tag.value
    /\ Supplied(query.method)
          => toLowerCase(e.method) = toLowerCase(query.method.value)
    /\ Supplied(query.path) => includes(e.path, query.path.value)
    /\ query.deprecated # None => e.deprecated = query.deprecated

\* count is the length of the list returned; tags holds every tag of the
\* schema once, in ascending order
CountAndTags ==
    /\ routeResponse.count = Len(routeResponse.endpoints)
    /\ \A i, j \in 1..Len(routeResponse.tags) :
          i < j => LexLess(routeResponse.tags[i], routeResponse.tags[j])
    /\ { routeResponse.tags[i] : i \in 1..Len(routeResponse.tags) }
          = UNION { { routeSchema.endpoints[k].tags[t] :
                        t \in 1..Len(routeSchema.endpoints[k].tags) } :
                      k \in 1..Len(routeSchema.endpoints) }

\* C26: the endpoints handler returns, in schema order, exactly the
\* endpoints that satisfy every supplied filter (tag as a substring of one
\* of the endpoint's tags, method ignoring case, path as a substring,
\* deprecated equal); count is the length of that list and tags is the
\* sorted set of the schema's tags
C26_FiltersAsStated ==
    routeQuery.present =>
        /\ routeResponse.endpoints
              = SelectSeq(routeSchema.endpoints,
                          LAMBDA e : SatisfiesStated(e, routeQuery))
        /\ CountAndTags

\* what holds: the same with the tag filter selecting the endpoints that
\* have a tag equal to the query
C26_FiltersWithExactTag ==
    routeQuery.present =>
        /\ routeResponse.endpoints
              = SelectSeq(routeSchema.endpoints,
                          LAMBDA e : SatisfiesExactTag(e, routeQuery))
        /\ CountAndTags

---------------------------------------------------------------------------
(* Claims about visibility in the schema (SpecVisible) *)

\* C27: every endpoint of the schema that normalizeSchema returns has a
\* stored path that the visibility policy of the configuration accepts
C27_StoredPathVisible ==
    normPc = "done" =>
        \A k \in 1..Len(schema.endpoints) :
            isPathVisible(schema.endpoints[k].path, config.visibility)

\* what holds: every endpoint of the schema stems from a candidate whose
\* path as written is accepted by the policy
C27_WrittenPathVisible ==
    normPc = "done" =>
        \A k \in 1..Len(schema.endpoints) :
            \E c \in 1..Len(merged.endpoints) :
                /\ merged.endpoints[c].summary = schema.endpoints[k].summary
                /\ normalizePath(merged.endpoints[c].path) = schema.endpoints[k].path
                /\ isPathVisible(merged.endpoints[c].path, config.visibility)

---------------------------------------------------------------------------
(* Claims about the tool names (SpecDispatch) *)

\* the last POST called, on its session, a tool by a name given with it
ToolCalled ==
    /\ Dispatched("tools/call")
    /\ lastPost.request.params.present
    /\ lastPost.request.params.hasName

\* C28: in the schema of every session the tool names that tools/list
\* derives from the endpoints are pairwise distinct and differ from
\* search_docs, and tools/call with the name listed for an endpoint returns
\* the formatted document of that endpoint
C28_ToolNamesDistinct ==
    /\ \A c \in DOMAIN sessions :
          LET eps == sessions[c].schema.endpoints
          IN  \A i, j \in 1..Len(eps) :
                 /\ toolNameListed(eps[i]) # SEARCH_DOCS
                 /\ i # j => toolNameListed(eps[i]) # toolNameListed(eps[j])
    /\ ToolCalled =>
          LET eps == sessions[lastPost.sid].schema.endpoints
          IN  \A k \in 1..Len(eps) :
                 toolNameListed(eps[k]) = lastPost.request.params.name
                    => /\ lastPost.body.kind = "result"
                       /\ lastPost.body.result.content[1].text = formatEndpointDocs(eps[k])

\* what holds: no endpoint's tool name is search_docs, and tools/call with
\* a name listed for some endpoint returns the document of the first
\* endpoint of the schema that the name is listed for
C28_FirstOfNameAnswers ==
    /\ \A c \in DOMAIN sessions :
          \A k \in 1..Len(sessions[c].schema.endpoints) :
              toolNameListed(sessions[c].schema.endpoints[k]) # SEARCH_DOCS
    /\ ToolCalled =>
          LET eps   == sessions[lastPost.sid].schema.endpoints
              named == { k \in 1..Len(eps) :
                           toolNameListed(eps[k]) = lastPost.request.params.name }
          IN  named # {} =>
                 /\ lastPost.body.kind = "result"
                 /\ lastPost.body.result.content[1].text
                       = formatEndpointDocs(eps[CHOOSE k \in named : \A l \in named : k <= l])

---------------------------------------------------------------------------
(* Claims about failing and overlapping reloads (SpecOverlap) *)

\* the reload() calls whose promise has resolved
Resolved == { resolved[k] : k \in 1..Len(resolved) }

\* C29: a reload() whose parse finds the source missing or unparsable
\* rejects, and no step of it - its start, its failing parse - changes what
\* getSchema() and getHandlers() return; it stays rejected and is never
\* among the resolved calls; and in every state the handlers of the
\* instance hold the schema that getSchema() returns
C29_FailedReloadKeepsInstance ==
    /\ [](/\ instance.handlers.schema = instance.schema
          /\ \A r \in 1..MaxReloads : reloads[r].pc = "rejected" => r \notin Resolved)
    /\ [][\A r \in 1..MaxReloads :
             /\ (reloads[r].pc = "idle" /\ reloads'[r].pc # "idle")
                   => (reloads'[r].pc = "parsing" /\ instance' = instance)
             /\ (reloads[r].pc = "parsing" /\ reloads'[r] # reloads[r] /\ ~source.ok)
                   => (reloads'[r].pc = "rejected" /\ instance' = instance)
             /\ reloads[r].pc = "rejected" => reloads'[r].pc = "rejected"
       ]_vars

\* a reload() has replaced the schema docmcp() built, and a later one was
\* rejected
C29_Witness ==
    /\ Len(resolved) > 0
    /\ \E r \in 1..MaxReloads :
          /\ reloads[r].pc = "rejected"
          /\ \A k \in 1..Len(resolved) : resolved[k] < r
    /\ instance.schema.parsedAt > 0

\* at least two reload() calls have resolved and none is running or was
\* rejected
ReloadsResolved ==
    /\ Len(resolved) >= 2
    /\ \A r \in 1..MaxReloads : reloads[r].pc \in {"idle", "resolved"}

\* the schema that the reload() call r builds from what its parse read
BuiltBy(r) == normalizeSchema(reloads[r].read, resolvedConfig)

\* C30: once the reload() calls have resolved, getSchema() returns the
\* schema built by the call that was started last, in whatever order the
\* parses completed (calls are numbered in the order they were started)
C30_LastStartedWins ==
    ReloadsResolved =>
        instance.schema.normalized
            = BuiltBy(CHOOSE r \in Resolved : \A q \in Resolved : q <= r)

\* what holds: getSchema() returns the schema built by the call that
\* resumed from its parse last
C30_LastResumedWins ==
    ReloadsResolved =>
        instance.schema.normalized = BuiltBy(resolved[Len(resolved)])

===========================================================================
